---- MODULE Spec2Model ----
(***************************************************************************)
(* ARIA block cipher core (RFC 5794) of CycloneCRYPTO, cipher/aria.c.      *)
(*                                                                         *)
(* Representation.  A uint8_t is a number in 0..255.  A uint32_t is the    *)
(* tuple <<b0, b1, b2, b3>> of its four bytes, most significant first      *)
(* (value b0*2^24 + b1*2^16 + b2*2^8 + b3): the model checker's integers   *)
(* are 32-bit signed, so a word is kept as its bytes, and the shifts keep  *)
(* the 32-bit width by dropping the bits shifted out.  A C array is a      *)
(* sequence; C index i is element i + 1.  A pointer is NULL or points to   *)
(* an object.                                                              *)
(***************************************************************************)
EXTENDS Integers, Sequences, FiniteSets, TLC

(***************************************************************************)
(* Statements in program order.  Do([v \in {e} |-> rest]) is rest with v   *)
(* bound to the value of the statement e, computed before the statements   *)
(* of rest, as C does: a function over the one-element set {e}, taken at   *)
(* its only argument.                                                      *)
(***************************************************************************)
Do(f) == f[CHOOSE v \in DOMAIN f : TRUE]

(***************************************************************************)
(* Bit operations on bytes and on 32-bit words                             *)
(***************************************************************************)

\* a ^ b and a | b bit by bit
RECURSIVE BitXor(_, _)
BitXor(a, b) ==
  IF a = 0 THEN b
  ELSE IF b = 0 THEN a
  ELSE ((a + b) % 2) + 2 * BitXor(a \div 2, b \div 2)

RECURSIVE BitOr(_, _)
BitOr(a, b) ==
  IF a = 0 THEN b
  ELSE IF b = 0 THEN a
  ELSE (IF a % 2 = 1 \/ b % 2 = 1 THEN 1 ELSE 0) + 2 * BitOr(a \div 2, b \div 2)

\* the two operations tabulated on bytes: XorTable[a + 1][b + 1] = a ^ b
XorTable == [a \in 1..256 |-> [b \in 1..256 |-> BitXor(a - 1, b - 1)]]
OrTable == [a \in 1..256 |-> [b \in 1..256 |-> BitOr(a - 1, b - 1)]]

\* a ^ b on uint8_t
BXor(a, b) == XorTable[a + 1][b + 1]

\* a | b on uint8_t
BOr(a, b) == OrTable[a + 1][b + 1]

\* 2^n for n in 0..8
Pow2(n) == << 1, 2, 4, 8, 16, 32, 64, 128, 256 >>[n + 1]

\* a ^ b on uint32_t
Xor32(a, b) == << BXor(a[1], b[1]), BXor(a[2], b[2]), BXor(a[3], b[3]), BXor(a[4], b[4]) >>

\* a | b on uint32_t
Or32(a, b) == << BOr(a[1], b[1]), BOr(a[2], b[2]), BOr(a[3], b[3]), BOr(a[4], b[4]) >>

\* byte k (1 = most significant) of a word, 0 outside the word
ByteAt(a, k) == IF k >= 1 /\ k <= 4 THEN a[k] ELSE 0

\* byte k of a << n, 0 <= n < 32: the bits shifted past bit 31 are lost
ShlByte(a, n, k) ==
  LET q == n \div 8
      r == n % 8
  IN IF r = 0
       THEN ByteAt(a, k + q)
       ELSE ((ByteAt(a, k + q) * Pow2(r)) % 256) + (ByteAt(a, k + q + 1) \div Pow2(8 - r))

\* byte k of a >> n, 0 <= n < 32
ShrByte(a, n, k) ==
  LET q == n \div 8
      r == n % 8
  IN IF r = 0
       THEN ByteAt(a, k - q)
       ELSE (ByteAt(a, k - q) \div Pow2(r)) + ((ByteAt(a, k - q - 1) * Pow2(8 - r)) % 256)

\* a << n on uint32_t
Shl32(a, n) == << ShlByte(a, n, 1), ShlByte(a, n, 2), ShlByte(a, n, 3), ShlByte(a, n, 4) >>

\* a >> n on uint32_t
Shr32(a, n) == << ShrByte(a, n, 1), ShrByte(a, n, 2), ShrByte(a, n, 3), ShrByte(a, n, 4) >>

\* the word (b0 << 24) | (b1 << 16) | (b2 << 8) | b3 built from four bytes, as SL1, SL2
\* and A build each y[i]
Pack32(b0, b1, b2, b3) == << b0, b1, b2, b3 >>

Zero32 == << 0, 0, 0, 0 >>

(***************************************************************************)
(* Primitive tables                                                        *)
(***************************************************************************)

sb1 ==
  <<  99, 124, 119, 123, 242, 107, 111, 197,  48,   1, 103,  43, 254, 215, 171, 118,
     202, 130, 201, 125, 250,  89,  71, 240, 173, 212, 162, 175, 156, 164, 114, 192,
     183, 253, 147,  38,  54,  63, 247, 204,  52, 165, 229, 241, 113, 216,  49,  21,
       4, 199,  35, 195,  24, 150,   5, 154,   7,  18, 128, 226, 235,  39, 178, 117,
       9, 131,  44,  26,  27, 110,  90, 160,  82,  59, 214, 179,  41, 227,  47, 132,
      83, 209,   0, 237,  32, 252, 177,  91, 106, 203, 190,  57,  74,  76,  88, 207,
     208, 239, 170, 251,  67,  77,  51, 133,  69, 249,   2, 127,  80,  60, 159, 168,
      81, 163,  64, 143, 146, 157,  56, 245, 188, 182, 218,  33,  16, 255, 243, 210,
     205,  12,  19, 236,  95, 151,  68,  23, 196, 167, 126,  61, 100,  93,  25, 115,
      96, 129,  79, 220,  34,  42, 144, 136,  70, 238, 184,  20, 222,  94,  11, 219,
     224,  50,  58,  10,  73,   6,  36,  92, 194, 211, 172,  98, 145, 149, 228, 121,
     231, 200,  55, 109, 141, 213,  78, 169, 108,  86, 244, 234, 101, 122, 174,   8,
     186, 120,  37,  46,  28, 166, 180, 198, 232, 221, 116,  31,  75, 189, 139, 138,
     112,  62, 181, 102,  72,   3, 246,  14,  97,  53,  87, 185, 134, 193,  29, 158,
     225, 248, 152,  17, 105, 217, 142, 148, 155,  30, 135, 233, 206,  85,  40, 223,
     140, 161, 137,  13, 191, 230,  66, 104,  65, 153,  45,  15, 176,  84, 187,  22 >>

sb2 ==
  << 226,  78,  84, 252, 148, 194,  74, 204,  98,  13, 106,  70,  60,  77, 139, 209,
      94, 250, 100, 203, 180, 151, 190,  43, 188, 119,  46,   3, 211,  25,  89, 193,
      29,   6,  65, 107,  85, 240, 153, 105, 234, 156,  24, 174,  99, 223, 231, 187,
       0, 115, 102, 251, 150,  76, 133, 228,  58,   9,  69, 170,  15, 238,  16, 235,
      45, 127, 244,  41, 172, 207, 173, 145, 141, 120, 200, 149, 249,  47, 206, 205,
       8, 122, 136,  56,  92, 131,  42,  40,  71, 219, 184, 199, 147, 164,  18,  83,
     255, 135,  14,  49,  54,  33,  88,  72,   1, 142,  55, 116,  50, 202, 233, 177,
     183, 171,  12, 215, 196,  86,  66,  38,   7, 152,  96, 217, 182, 185,  17,  64,
     236,  32, 140, 189, 160, 201, 132,   4,  73,  35, 241,  79,  80,  31,  19, 220,
     216, 192, 158,  87, 227, 195, 123, 101,  59,   2, 143,  62, 232,  37, 146, 229,
      21, 221, 253,  23, 169, 191, 212, 154, 126, 197,  57, 103, 254, 118, 157,  67,
     167, 225, 208, 245, 104, 242,  27,  52, 112,   5, 163, 138, 213, 121, 134, 168,
      48, 198,  81,  75,  30, 166,  39, 246,  53, 210, 110,  36,  22, 130,  95, 218,
     230, 117, 162, 239,  44, 178,  28, 159,  93, 111, 128,  10, 114,  68, 155, 108,
     144,  11,  91,  51, 125,  90,  82, 243,  97, 161, 247, 176, 214,  63, 124, 109,
     237,  20, 224, 165,  61,  34, 179, 248, 137, 222, 113,  26, 175, 186, 181, 129 >>

\* sb3 with its entry for 0x00 mistyped as 0x00: the table that undoes sb1 everywhere
\* else
sb3_typo == [i \in 1..256 |-> IF i = 1 THEN 0 ELSE CHOOSE b \in 0..255 : sb1[b + 1] = i - 1]

sb3 ==
  <<  82,   9, 106, 213,  48,  54, 165,  56, 191,  64, 163, 158, 129, 243, 215, 251,
     124, 227,  57, 130, 155,  47, 255, 135,  52, 142,  67,  68, 196, 222, 233, 203,
      84, 123, 148,  50, 166, 194,  35,  61, 238,  76, 149,  11,  66, 250, 195,  78,
       8,  46, 161, 102,  40, 217,  36, 178, 118,  91, 162,  73, 109, 139, 209,  37,
     114, 248, 246, 100, 134, 104, 152,  22, 212, 164,  92, 204,  93, 101, 182, 146,
     108, 112,  72,  80, 253, 237, 185, 218,  94,  21,  70,  87, 167, 141, 157, 132,
     144, 216, 171,   0, 140, 188, 211,  10, 247, 228,  88,   5, 184, 179,  69,   6,
     208,  44,  30, 143, 202,  63,  15,   2, 193, 175, 189,   3,   1,  19, 138, 107,
      58, 145,  17,  65,  79, 103, 220, 234, 151, 242, 207, 206, 240, 180, 230, 115,
     150, 172, 116,  34, 231, 173,  53, 133, 226, 249,  55, 232,  28, 117, 223, 110,
      71, 241,  26, 113,  29,  41, 197, 137, 111, 183,  98,  14, 170,  24, 190,  27,
     252,  86,  62,  75, 198, 210, 121,  32, 154, 219, 192, 254, 120, 205,  90, 244,
      31, 221, 168,  51, 136,   7, 199,  49, 177,  18,  16,  89,  39, 128, 236,  95,
      96,  81, 127, 169,  25, 181,  74,  13,  45, 229, 122, 159, 147, 201, 156, 239,
     160, 224,  59,  77, 174,  42, 245, 176, 200, 235, 187,  60, 131,  83, 153,  97,
      23,  43,   4, 126, 186, 119, 214,  38, 225, 105,  20,  99,  85,  33,  12, 125 >>

sb4 ==
  <<  48, 104, 153,  27, 135, 185,  33, 120,  80,  57, 219, 225, 114,   9,  98,  60,
      62, 126,  94, 142, 241, 160, 204, 163,  42,  29, 251, 182, 214,  32, 196, 141,
     129, 101, 245, 137, 203, 157, 119, 198,  87,  67,  86,  23, 212,  64,  26,  77,
     192,  99, 108, 227, 183, 200, 100, 106,  83, 170,  56, 152,  12, 244, 155, 237,
     127,  34, 118, 175, 221,  58,  11,  88, 103, 136,   6, 195,  53,  13,   1, 139,
     140, 194, 230,  95,   2,  36, 117, 147, 102,  30, 229, 226,  84, 216,  16, 206,
     122, 232,   8,  44,  18, 151,  50, 171, 180,  39,  10,  35, 223, 239, 202, 217,
     184, 250, 220,  49, 107, 209, 173,  25,  73, 189,  81, 150, 238, 228, 168,  65,
     218, 255, 205,  85, 134,  54, 190,  97,  82, 248, 187,  14, 130,  72, 105, 154,
     224,  71, 158,  92,   4,  75,  52,  21, 121,  38, 167, 222,  41, 174, 146, 215,
     132, 233, 210, 186,  93, 243, 197, 176, 191, 164,  59, 113,  68,  70,  43, 252,
     235, 111, 213, 246,  20, 254, 124, 112,  90, 125, 253,  47,  24, 131,  22, 165,
     145,  31,   5, 149, 116, 169, 193,  91,  74, 133, 109,  19,   7,  79,  78,  69,
     178,  15, 201,  28, 166, 188, 236, 115, 144, 123, 207,  89, 143, 161, 249,  45,
     242, 177,   0, 148,  55, 159, 208,  46, 156, 110,  40,  63, 128, 240,  61, 211,
      37, 138, 181, 231,  66, 179, 199, 234, 247,  76,  17,  51,   3, 162, 172,  96 >>

\* Key scheduling constants c[12], one word per entry
c ==
  << <<81, 124, 193, 183>>, <<39, 34, 10, 148>>, <<254, 19, 171, 232>>,
     <<250, 154, 110, 224>>, <<109, 177, 74, 204>>, <<158, 33, 200, 32>>,
     <<255, 40, 177, 213>>, <<239, 93, 226, 176>>, <<219, 146, 55, 29>>,
     <<33, 38, 233, 112>>, <<3, 36, 151, 117>>, <<4, 232, 201, 14>> >>

(***************************************************************************)
(* 128-bit macros.  A pointer arr + off into a word array is the pair      *)
(* (arr, off); a macro that writes through its first argument b is the     *)
(* operator that gives the four words written to b.                        *)
(***************************************************************************)

\* the four words at arr + off
At128(arr, off) == << arr[off + 1], arr[off + 2], arr[off + 3], arr[off + 4] >>

\* arr with the four words at arr + off replaced by v
Put128(arr, off, v) == SubSeq(arr, 1, off) \o v \o SubSeq(arr, off + 5, Len(arr))

\* MOV128(b, a)
MOV128(a) == << a[1], a[2], a[3], a[4] >>

\* XOR128(b, a)
XOR128(b, a) == << Xor32(b[1], a[1]), Xor32(b[2], a[2]), Xor32(b[3], a[3]), Xor32(b[4], a[4]) >>

\* RolWord with the second word shifted right by n % 32 instead of 32 - n % 32
RolWord_shr(a, n, k) ==
  Or32(Shl32(a[((n \div 32 + k) % 4) + 1], n % 32),
       Shr32(a[((n \div 32 + k + 1) % 4) + 1], n % 32))

\* one word of ROL128: (a[(n / 32 + k) % 4] << (n % 32)) | (a[(n / 32 + k + 1) % 4] >> (32 - n % 32))
RolWord(a, n, k) ==
  Or32(Shl32(a[((n \div 32 + k) % 4) + 1], n % 32),
       Shr32(a[((n \div 32 + k + 1) % 4) + 1], 32 - (n % 32)))

\* ROL128(b, a, n)
ROL128(a, n) == << RolWord(a, n, 0), RolWord(a, n, 1), RolWord(a, n, 2), RolWord(a, n, 3) >>

\* X(n) = (x[n / 4] >> ((3 - n % 4) * 8)) & 0xFF: byte n % 4, counted from the most
\* significant, of word n / 4
X(x, n) == x[(n \div 4) + 1][(n % 4) + 1]

\* Substitution layer SL1(b, a)
SL1(x) ==
  << Pack32(sb1[X(x, 0) + 1], sb2[X(x, 1) + 1], sb3[X(x, 2) + 1], sb4[X(x, 3) + 1]),
     Pack32(sb1[X(x, 4) + 1], sb2[X(x, 5) + 1], sb3[X(x, 6) + 1], sb4[X(x, 7) + 1]),
     Pack32(sb1[X(x, 8) + 1], sb2[X(x, 9) + 1], sb3[X(x, 10) + 1], sb4[X(x, 11) + 1]),
     Pack32(sb1[X(x, 12) + 1], sb2[X(x, 13) + 1], sb3[X(x, 14) + 1], sb4[X(x, 15) + 1]) >>

\* Substitution layer SL2(b, a)
SL2(x) ==
  << Pack32(sb3[X(x, 0) + 1], sb4[X(x, 1) + 1], sb1[X(x, 2) + 1], sb2[X(x, 3) + 1]),
     Pack32(sb3[X(x, 4) + 1], sb4[X(x, 5) + 1], sb1[X(x, 6) + 1], sb2[X(x, 7) + 1]),
     Pack32(sb3[X(x, 8) + 1], sb4[X(x, 9) + 1], sb1[X(x, 10) + 1], sb2[X(x, 11) + 1]),
     Pack32(sb3[X(x, 12) + 1], sb4[X(x, 13) + 1], sb1[X(x, 14) + 1], sb2[X(x, 15) + 1]) >>

\* X(i1) ^ X(i2) ^ X(i3) ^ X(i4) ^ X(i5) ^ X(i6) ^ X(i7)
X7(x, i1, i2, i3, i4, i5, i6, i7) ==
  BXor(BXor(BXor(BXor(BXor(BXor(X(x, i1), X(x, i2)), X(x, i3)), X(x, i4)), X(x, i5)),
            X(x, i6)), X(x, i7))


\* A with X(5) for X(4) in the first byte of y[0]
A_typo(x) ==
  << Pack32(X7(x, 3, 5, 6, 8, 9, 13, 14), X7(x, 2, 5, 7, 8, 9, 12, 15),
            X7(x, 1, 4, 6, 10, 11, 12, 15), X7(x, 0, 5, 7, 10, 11, 13, 14)),
     Pack32(X7(x, 0, 2, 5, 8, 11, 14, 15), X7(x, 1, 3, 4, 9, 10, 14, 15),
            X7(x, 0, 2, 7, 9, 10, 12, 13), X7(x, 1, 3, 6, 8, 11, 12, 13)),
     Pack32(X7(x, 0, 1, 4, 7, 10, 13, 15), X7(x, 0, 1, 5, 6, 11, 12, 14),
            X7(x, 2, 3, 5, 6, 8, 13, 15), X7(x, 2, 3, 4, 7, 9, 12, 14)),
     Pack32(X7(x, 1, 2, 6, 7, 9, 11, 12), X7(x, 0, 3, 6, 7, 8, 10, 13),
            X7(x, 0, 3, 4, 5, 9, 11, 14), X7(x, 1, 2, 4, 5, 8, 10, 15)) >>

\* Diffusion layer A(b, a)
A(x) ==
  << Pack32(X7(x, 3, 4, 6, 8, 9, 13, 14), X7(x, 2, 5, 7, 8, 9, 12, 15),
            X7(x, 1, 4, 6, 10, 11, 12, 15), X7(x, 0, 5, 7, 10, 11, 13, 14)),
     Pack32(X7(x, 0, 2, 5, 8, 11, 14, 15), X7(x, 1, 3, 4, 9, 10, 14, 15),
            X7(x, 0, 2, 7, 9, 10, 12, 13), X7(x, 1, 3, 6, 8, 11, 12, 13)),
     Pack32(X7(x, 0, 1, 4, 7, 10, 13, 15), X7(x, 0, 1, 5, 6, 11, 12, 14),
            X7(x, 2, 3, 5, 6, 8, 13, 15), X7(x, 2, 3, 4, 7, 9, 12, 14)),
     Pack32(X7(x, 1, 2, 6, 7, 9, 11, 12), X7(x, 0, 3, 6, 7, 8, 10, 13),
            X7(x, 0, 3, 4, 5, 9, 11, 14), X7(x, 1, 2, 4, 5, 8, 10, 15)) >>


\* OF with the substitution layer of the even rounds
OF_SL2(d, rk) == A(SL2(XOR128(d, rk)))

\* Odd round function OF(d, rk): XOR128(d, rk); SL1(t, d); A(d, t)
OF(d, rk) == A(SL1(XOR128(d, rk)))

\* Even round function EF(d, rk): XOR128(d, rk); SL2(t, d); A(d, t)
EF(d, rk) == A(SL2(XOR128(d, rk)))

(***************************************************************************)
(* Memory and error codes                                                  *)
(***************************************************************************)

NULL == << >>
Ptr(m) == << m >>

NO_ERROR == "NO_ERROR"
ERROR_INVALID_PARAMETER == "ERROR_INVALID_PARAMETER"
ERROR_INVALID_KEY_LENGTH == "ERROR_INVALID_KEY_LENGTH"
ERROR_OUT_OF_RESOURCES == "ERROR_OUT_OF_RESOURCES"
ERROR_FAILURE == "ERROR_FAILURE"

\* LOAD32BE(p + off): the word whose bytes, most significant first, are p[off..off+3]
LOAD32BE(p, off) == Pack32(p[off + 1], p[off + 2], p[off + 3], p[off + 4])

\* STORE32BE(a, p): the four bytes written at p, most significant first
STORE32BE(a) == << ShrByte(a, 24, 4), ShrByte(a, 16, 4), ShrByte(a, 8, 4), ShrByte(a, 0, 4) >>

\* n words of value v
Words(n, v) == [i \in 1..n |-> v]

\* an AriaContext with every byte zero: nr, ek[68], dk[68]
ZeroContext == [nr |-> 0, ek |-> Words(68, Zero32), dk |-> Words(68, Zero32)]

(***************************************************************************)
(* ariaInit                                                                *)
(***************************************************************************)


\* SelectParams taking every key of at most 16 bytes as a 128-bit key
SelectParams_le16(keyLen) ==
  IF keyLen <= 16
    THEN [error |-> NO_ERROR, nr |-> 12, ck1 |-> 0, ck2 |-> 4, ck3 |-> 8]
  ELSE IF keyLen = 24
    THEN [error |-> NO_ERROR, nr |-> 14, ck1 |-> 4, ck2 |-> 8, ck3 |-> 0]
  ELSE IF keyLen = 32
    THEN [error |-> NO_ERROR, nr |-> 16, ck1 |-> 8, ck2 |-> 0, ck3 |-> 4]
  ELSE [error |-> ERROR_INVALID_KEY_LENGTH, nr |-> 0, ck1 |-> 0, ck2 |-> 0, ck3 |-> 0]

\* SelectParams with the 192-bit branch's round count copied into the 256-bit branch
SelectParams_nr14(keyLen) ==
  IF keyLen = 16
    THEN [error |-> NO_ERROR, nr |-> 12, ck1 |-> 0, ck2 |-> 4, ck3 |-> 8]
  ELSE IF keyLen = 24
    THEN [error |-> NO_ERROR, nr |-> 14, ck1 |-> 4, ck2 |-> 8, ck3 |-> 0]
  ELSE IF keyLen = 32
    THEN [error |-> NO_ERROR, nr |-> 14, ck1 |-> 8, ck2 |-> 0, ck3 |-> 4]
  ELSE [error |-> ERROR_INVALID_KEY_LENGTH, nr |-> 0, ck1 |-> 0, ck2 |-> 0, ck3 |-> 0]

\* SelectParams with the constants of the 256-bit branch selected in the 192-bit branch
SelectParams_ck192(keyLen) ==
  IF keyLen = 16
    THEN [error |-> NO_ERROR, nr |-> 12, ck1 |-> 0, ck2 |-> 4, ck3 |-> 8]
  ELSE IF keyLen = 24
    THEN [error |-> NO_ERROR, nr |-> 14, ck1 |-> 8, ck2 |-> 0, ck3 |-> 4]
  ELSE IF keyLen = 32
    THEN [error |-> NO_ERROR, nr |-> 16, ck1 |-> 8, ck2 |-> 0, ck3 |-> 4]
  ELSE [error |-> ERROR_INVALID_KEY_LENGTH, nr |-> 0, ck1 |-> 0, ck2 |-> 0, ck3 |-> 0]

\* "Check the length of the master key": the number of rounds stored in context->nr
\* and the offsets in c of ck1, ck2, ck3, or the error
SelectParams(keyLen) ==
  IF keyLen = 16
    THEN [error |-> NO_ERROR, nr |-> 12, ck1 |-> 0, ck2 |-> 4, ck3 |-> 8]
  ELSE IF keyLen = 24
    THEN [error |-> NO_ERROR, nr |-> 14, ck1 |-> 4, ck2 |-> 8, ck3 |-> 0]
  ELSE IF keyLen = 32
    THEN [error |-> NO_ERROR, nr |-> 16, ck1 |-> 8, ck2 |-> 0, ck3 |-> 4]
  ELSE [error |-> ERROR_INVALID_KEY_LENGTH, nr |-> 0, ck1 |-> 0, ck2 |-> 0, ck3 |-> 0]

\* LoadKey without the else branch w[i] = 0: the words past the key keep what w held
RECURSIVE LoadKey_noPad(_, _, _, _)
LoadKey_noPad(w, key, keyLen, i) ==
  IF i < 16
    THEN Do([wi \in {IF i < keyLen THEN LOAD32BE(key, i * 4) ELSE w[i + 1]} |->
         Do([w1 \in {[w EXCEPT ![i + 1] = wi]} |->
         LoadKey_noPad(w1, key, keyLen, i + 1)])])
    ELSE w

\* "Compute 128-bit values KL and KR": the loop for(i = 0; i < 16; i++) from i on;
\* keyLen is the number of 32-bit words in the key
RECURSIVE LoadKey(_, _, _, _)
LoadKey(w, key, keyLen, i) ==
  IF i < 16
    THEN Do([wi \in {IF i < keyLen THEN LOAD32BE(key, i * 4) ELSE Zero32} |->
         Do([w1 \in {[w EXCEPT ![i + 1] = wi]} |->
         LoadKey(w1, key, keyLen, i + 1)])])
    ELSE w

\* "Save KR" and "Compute intermediate values W0, W1, W2, and W3": the array w after
\* these statements, given w as the loop left it
ComputeW(w0, ck1, ck2, ck3) ==
  Do([wa \in {Put128(w0, 8, MOV128(At128(w0, 4)))} |->
  Do([wb \in {Put128(wa, 4, MOV128(At128(wa, 0)))} |->
  Do([wc \in {Put128(wb, 4, OF(At128(wb, 4), At128(c, ck1)))} |->
  Do([wd \in {Put128(wc, 4, XOR128(At128(wc, 4), At128(wc, 8)))} |->
  Do([we \in {Put128(wd, 8, MOV128(At128(wd, 4)))} |->
  Do([wf \in {Put128(we, 8, EF(At128(we, 8), At128(c, ck2)))} |->
  Do([wg \in {Put128(wf, 8, XOR128(At128(wf, 8), At128(wf, 0)))} |->
  Do([wh \in {Put128(wg, 12, MOV128(At128(wg, 8)))} |->
  Do([wi \in {Put128(wh, 12, OF(At128(wh, 12), At128(c, ck3)))} |->
  Put128(wi, 12, XOR128(At128(wi, 12), At128(wi, 4)))])])])])])])])])])

\* EkStep storing only the round keys the shortest key uses: nothing past ek + 48
EkStep_upTo12(ek, off, w, src, part, n) ==
  IF off > 48 THEN ek
  ELSE Put128(ek, off, XOR128(ROL128(At128(w, src), n), At128(w, part)))

\* EkStep without the ROL128 that writes ek + off before XOR128 reads it
EkStep_noRol(ek, off, w, src, part, n) ==
  Put128(ek, off, XOR128(At128(ek, off), At128(w, part)))

\* ROL128(ek + off, w + src, n); XOR128(ek + off, w + part);
EkStep(ek, off, w, src, part, n) ==
  Do([b \in {ROL128(At128(w, src), n)} |->
  Do([b1 \in {XOR128(b, At128(w, part))} |->
  Put128(ek, off, b1)])])

\* "Compute ek1, ..., ek17 as follow": the array context->ek after these statements
ComputeEk(ek, w) ==
  Do([e1 \in {EkStep(ek, 0, w, 4, 0, 109)} |->
  Do([e2 \in {EkStep(e1, 4, w, 8, 4, 109)} |->
  Do([e3 \in {EkStep(e2, 8, w, 12, 8, 109)} |->
  Do([e4 \in {EkStep(e3, 12, w, 0, 12, 109)} |->
  Do([e5 \in {EkStep(e4, 16, w, 4, 0, 97)} |->
  Do([e6 \in {EkStep(e5, 20, w, 8, 4, 97)} |->
  Do([e7 \in {EkStep(e6, 24, w, 12, 8, 97)} |->
  Do([e8 \in {EkStep(e7, 28, w, 0, 12, 97)} |->
  Do([e9 \in {EkStep(e8, 32, w, 4, 0, 61)} |->
  Do([e10 \in {EkStep(e9, 36, w, 8, 4, 61)} |->
  Do([e11 \in {EkStep(e10, 40, w, 12, 8, 61)} |->
  Do([e12 \in {EkStep(e11, 44, w, 0, 12, 61)} |->
  Do([e13 \in {EkStep(e12, 48, w, 4, 0, 31)} |->
  Do([e14 \in {EkStep(e13, 52, w, 8, 4, 31)} |->
  Do([e15 \in {EkStep(e14, 56, w, 12, 8, 31)} |->
  Do([e16 \in {EkStep(e15, 60, w, 0, 12, 31)} |->
  EkStep(e16, 64, w, 4, 0, 19)])])])])])])])])])])])])])])])])


\* DkLoop reading ek in forward order: A(dk + i * 4, ek + i * 4)
RECURSIVE DkLoop_forward(_, _, _, _)
DkLoop_forward(dk, ek, nr, i) ==
  IF i < nr
    THEN Do([dk1 \in {Put128(dk, i * 4, A(At128(ek, i * 4)))} |->
         DkLoop_forward(dk1, ek, nr, i + 1)])
    ELSE [dk |-> dk, i |-> i]

\* "Compute dk2, ..., dk(n)": the loop for(i = 1; i < context->nr; i++) from i on; the
\* array dk and the value of i when the loop ends
RECURSIVE DkLoop(_, _, _, _)
DkLoop(dk, ek, nr, i) ==
  IF i < nr
    THEN Do([dk1 \in {Put128(dk, i * 4, A(At128(ek, (nr - i) * 4)))} |-> DkLoop(dk1, ek, nr, i + 1)])
    ELSE [dk |-> dk, i |-> i]


\* ComputeDk without the statement after the loop, "Compute dk(n + 1)"
ComputeDk_noLast(dk, ek, nr) ==
  Do([d1 \in {Put128(dk, 0, MOV128(At128(ek, nr * 4)))} |->
  DkLoop(d1, ek, nr, 1).dk])

\* "Decryption round keys are derived from the encryption round keys": the array
\* context->dk after these statements
ComputeDk(dk, ek, nr) ==
  Do([d1 \in {Put128(dk, 0, MOV128(At128(ek, nr * 4)))} |->
  Do([lp \in {DkLoop(d1, ek, nr, 1)} |->
  Put128(lp.dk, lp.i * 4, MOV128(At128(ek, 0)))])])


\* ariaInit checking the key length before the parameters
ariaInit_lengthFirst(context, key, keyLen, w0) ==
  IF SelectParams(keyLen).error # NO_ERROR
    THEN [error |-> SelectParams(keyLen).error, context |-> context, w |-> w0, ck |-> << >>]
  ELSE IF context = NULL \/ key = NULL
    THEN [error |-> ERROR_INVALID_PARAMETER, context |-> context, w |-> w0, ck |-> << >>]
  ELSE
    Do([sel \in {SelectParams(keyLen)} |->
    Do([wk \in {LoadKey(w0, key[1], keyLen \div 4, 0)} |->
    Do([w \in {ComputeW(wk, sel.ck1, sel.ck2, sel.ck3)} |->
    Do([ek \in {ComputeEk(context[1].ek, w)} |->
    Do([dk \in {ComputeDk(context[1].dk, ek, sel.nr)} |->
    [error |-> NO_ERROR, context |-> Ptr([nr |-> sel.nr, ek |-> ek, dk |-> dk]),
     w |-> w, ck |-> << sel.ck1, sel.ck2, sel.ck3 >>]])])])])])

\* ariaInit storing a round count in context->nr on the invalid-length path too
ariaInit_nrOnError(context, key, keyLen, w0) ==
  IF context = NULL \/ key = NULL
    THEN [error |-> ERROR_INVALID_PARAMETER, context |-> context, w |-> w0, ck |-> << >>]
  ELSE IF SelectParams(keyLen).error # NO_ERROR
    THEN [error |-> SelectParams(keyLen).error,
          context |-> Ptr([context[1] EXCEPT !.nr = SelectParams(keyLen).nr]), w |-> w0,
          ck |-> << >>]
  ELSE
    Do([sel \in {SelectParams(keyLen)} |->
    Do([wk \in {LoadKey(w0, key[1], keyLen \div 4, 0)} |->
    Do([w \in {ComputeW(wk, sel.ck1, sel.ck2, sel.ck3)} |->
    Do([ek \in {ComputeEk(context[1].ek, w)} |->
    Do([dk \in {ComputeDk(context[1].dk, ek, sel.nr)} |->
    [error |-> NO_ERROR, context |-> Ptr([nr |-> sel.nr, ek |-> ek, dk |-> dk]),
     w |-> w, ck |-> << sel.ck1, sel.ck2, sel.ck3 >>]])])])])])

\* ariaInit(context, key, keyLen): the error code returned, the memory context points
\* to after the call (context itself when it is NULL), the local array w as it
\* stands at the return and the offsets in c of the locals ck1, ck2, ck3 (none when
\* they were not assigned).  w0 is what the uninitialised local w holds on entry.
ariaInit(context, key, keyLen, w0) ==
  IF context = NULL \/ key = NULL
    THEN [error |-> ERROR_INVALID_PARAMETER, context |-> context, w |-> w0, ck |-> << >>]
  ELSE IF SelectParams(keyLen).error # NO_ERROR
    THEN [error |-> SelectParams(keyLen).error, context |-> context, w |-> w0, ck |-> << >>]
  ELSE
    Do([sel \in {SelectParams(keyLen)} |->
    Do([wk \in {LoadKey(w0, key[1], keyLen \div 4, 0)} |->
    Do([w \in {ComputeW(wk, sel.ck1, sel.ck2, sel.ck3)} |->
    Do([ek \in {ComputeEk(context[1].ek, w)} |->
    Do([dk \in {ComputeDk(context[1].dk, ek, sel.nr)} |->
    [error |-> NO_ERROR, context |-> Ptr([nr |-> sel.nr, ek |-> ek, dk |-> dk]),
     w |-> w, ck |-> << sel.ck1, sel.ck2, sel.ck3 >>]])])])])])

(***************************************************************************)
(* Block operations                                                        *)
(***************************************************************************)

\* p[0..3] = LOAD32BE(input), .., LOAD32BE(input + 12): the four words read from the
\* 16 bytes of the memory mem at input
Load128(mem, input) ==
  << LOAD32BE(mem, input), LOAD32BE(mem, input + 4), LOAD32BE(mem, input + 8),
     LOAD32BE(mem, input + 12) >>

\* the memory mem with the bytes bs written at p
PutBytes(mem, p, bs) == SubSeq(mem, 1, p) \o bs \o SubSeq(mem, p + Len(bs) + 1, Len(mem))

\* STORE32BE(q[0], output); ..; STORE32BE(q[3], output + 12): the memory after them
Store128(mem, output, q) ==
  Do([m1 \in {PutBytes(mem, output, STORE32BE(q[1]))} |->
  Do([m2 \in {PutBytes(m1, output + 4, STORE32BE(q[2]))} |->
  Do([m3 \in {PutBytes(m2, output + 8, STORE32BE(q[3]))} |->
  PutBytes(m3, output + 12, STORE32BE(q[4]))])])])

\* "Apply 11 rounds"
Rounds11(p0, rk) ==
  Do([p1 \in {OF(p0, At128(rk, 0))} |->
  Do([p2 \in {EF(p1, At128(rk, 4))} |->
  Do([p3 \in {OF(p2, At128(rk, 8))} |->
  Do([p4 \in {EF(p3, At128(rk, 12))} |->
  Do([p5 \in {OF(p4, At128(rk, 16))} |->
  Do([p6 \in {EF(p5, At128(rk, 20))} |->
  Do([p7 \in {OF(p6, At128(rk, 24))} |->
  Do([p8 \in {EF(p7, At128(rk, 28))} |->
  Do([p9 \in {OF(p8, At128(rk, 32))} |->
  Do([p10 \in {EF(p9, At128(rk, 36))} |->
  OF(p10, At128(rk, 40))])])])])])])])])])])

\* FinalRound with the diffusion layer applied as in the other rounds
FinalRound_withA(p, rk, a, b) ==
  Do([p1 \in {XOR128(p, At128(rk, a))} |->
  Do([q \in {A(SL2(p1))} |->
  XOR128(q, At128(rk, b))])])

\* XOR128(p, rk + a); SL2(q, p); XOR128(q, rk + b);
FinalRound(p, rk, a, b) ==
  Do([p1 \in {XOR128(p, At128(rk, a))} |->
  Do([q \in {SL2(p1)} |->
  XOR128(q, At128(rk, b))])])


\* LastRounds without the tests of context->nr: the 16-round statements for every key
LastRounds_always16(nr, p, rk) ==
  Do([p1 \in {EF(p, At128(rk, 44))} |->
  Do([p2 \in {OF(p1, At128(rk, 48))} |->
  Do([p3 \in {EF(p2, At128(rk, 52))} |->
  Do([p4 \in {OF(p3, At128(rk, 56))} |->
  FinalRound(p4, rk, 60, 64)])])])])

\* LastRounds testing for 16 and 14 rounds and taking the 12-round statements otherwise
LastRounds_else12(nr, p, rk) ==
  IF nr = 16
    THEN Do([p1 \in {EF(p, At128(rk, 44))} |->
         Do([p2 \in {OF(p1, At128(rk, 48))} |->
         Do([p3 \in {EF(p2, At128(rk, 52))} |->
         Do([p4 \in {OF(p3, At128(rk, 56))} |->
         FinalRound(p4, rk, 60, 64)])])])])
  ELSE IF nr = 14
    THEN Do([p1 \in {EF(p, At128(rk, 44))} |->
         Do([p2 \in {OF(p1, At128(rk, 48))} |->
         FinalRound(p2, rk, 52, 56)])])
  ELSE FinalRound(p, rk, 44, 48)

\* "The number of rounds depends on the length of the master key": q at the end
LastRounds(nr, p, rk) ==
  IF nr = 12
    THEN FinalRound(p, rk, 44, 48)
  ELSE IF nr = 14
    THEN Do([p1 \in {EF(p, At128(rk, 44))} |->
         Do([p2 \in {OF(p1, At128(rk, 48))} |->
         FinalRound(p2, rk, 52, 56)])])
  ELSE Do([p1 \in {EF(p, At128(rk, 44))} |->
       Do([p2 \in {OF(p1, At128(rk, 48))} |->
       Do([p3 \in {EF(p2, At128(rk, 52))} |->
       Do([p4 \in {OF(p3, At128(rk, 56))} |->
       FinalRound(p4, rk, 60, 64)])])])])


\* ariaEncryptBlock keeping the block it loads in context->ek instead of the local p
ariaEncryptBlock_scratch(context, mem, input, output) ==
  Do([p0 \in {Load128(mem, input)} |->
  Do([p \in {Rounds11(p0, context.ek)} |->
  Do([q \in {LastRounds(context.nr, p, context.ek)} |->
  [context |-> [context EXCEPT !.ek = Put128(context.ek, 0, p0)],
   mem |-> Store128(mem, output, q)]])])])

\* ariaEncryptBlock(context, input, output): the context memory and the caller's memory
\* mem, which holds the buffers at input and output, after the call
ariaEncryptBlock(context, mem, input, output) ==
  Do([p0 \in {Load128(mem, input)} |->
  Do([p \in {Rounds11(p0, context.ek)} |->
  Do([q \in {LastRounds(context.nr, p, context.ek)} |->
  [context |-> context, mem |-> Store128(mem, output, q)]])])])

\* ariaDecryptBlock taking its round keys from context->ek
ariaDecryptBlock_ek(context, mem, input, output) ==
  Do([p0 \in {Load128(mem, input)} |->
  Do([p \in {Rounds11(p0, context.ek)} |->
  Do([q \in {LastRounds(context.nr, p, context.ek)} |->
  [context |-> context, mem |-> Store128(mem, output, q)]])])])

\* ariaDecryptBlock clearing the output buffer before it reads the input
ariaDecryptBlock_clearsOutput(context, mem, input, output) ==
  Do([m0 \in {PutBytes(mem, output, [i \in 1..16 |-> 0])} |->
  Do([p0 \in {Load128(m0, input)} |->
  Do([p \in {Rounds11(p0, context.dk)} |->
  Do([q \in {LastRounds(context.nr, p, context.dk)} |->
  [context |-> context, mem |-> Store128(m0, output, q)]])])])])

\* ariaDecryptBlock with the statements after the eleventh round reading context->ek
ariaDecryptBlock_tailEk(context, mem, input, output) ==
  Do([p0 \in {Load128(mem, input)} |->
  Do([p \in {Rounds11(p0, context.dk)} |->
  Do([q \in {LastRounds(context.nr, p, context.ek)} |->
  [context |-> context, mem |-> Store128(mem, output, q)]])])])

\* ariaDecryptBlock(context, input, output)
ariaDecryptBlock(context, mem, input, output) ==
  Do([p0 \in {Load128(mem, input)} |->
  Do([p \in {Rounds11(p0, context.dk)} |->
  Do([q \in {LastRounds(context.nr, p, context.dk)} |->
  [context |-> context, mem |-> Store128(mem, output, q)]])])])

(***************************************************************************)
(* The block operations statement by statement, for threads that run them  *)
(* at the same time.  A thread th is at a line of ariaEncryptBlock (at     *)
(* line + 73 of ariaDecryptBlock, which has the same statements with dk    *)
(* for ek) with its locals rk (ek or dk), p and q; BlockStep runs the      *)
(* statement at that line on the context the thread was given and on the   *)
(* memory mem that holds the buffers.                                      *)
(***************************************************************************)

\* the thread at the first statement of op(context number cx, input, output)
ThreadAt(op, cx, input, output) ==
  [op |-> op, cx |-> cx, input |-> input, output |-> output, line |-> 507,
   rk |-> "unset", p |-> Words(4, <<165, 165, 165, 165>>),
   q |-> Words(4, <<165, 165, 165, 165>>), path |-> << >>]

\* the line of the closing brace: the call has returned
ReturnLine == 562

\* the round keys the local pointer rk points to
RoundKeys(th, context) == IF th.rk = "ek" THEN context.ek ELSE context.dk

\* the thread after its statement has set p, or q, and control goes to line next
SetP(th, p, next) == [th EXCEPT !.p = p, !.line = next, !.path = Append(th.path, th.line)]
SetQ(th, q, next) == [th EXCEPT !.q = q, !.line = next, !.path = Append(th.path, th.line)]

\* Goto with two branches taken on a bit of the data: the one at line 529 of a block
\* operation on a bit of the block, the one at line 408 of ariaInit on the top bit of the
\* key byte about to be loaded
Goto_onData(th, next) ==
  [th EXCEPT !.line = IF th.line = 529 /\ th.p[1][1] % 2 = 0 THEN 548
                      ELSE IF th.line = 408 /\ next = 410 /\ th.key[1][4 * th.i + 1] >= 128
                        THEN 414
                      ELSE next,
             !.path = Append(th.path, th.line)]

\* the thread, or the call of ariaInit, after a statement: control goes to line next
Goto(th, next) == [th EXCEPT !.line = next, !.path = Append(th.path, th.line)]

\* the statement at th.line: the thread, the context and the memory after it
BlockStep(th, context, mem) ==
  CASE th.line \in 507..510 ->
         [th |-> SetP(th, [th.p EXCEPT ![th.line - 506] =
                             LOAD32BE(mem, th.input + 4 * (th.line - 507))],
                      IF th.line = 510 THEN 513 ELSE th.line + 1),
          context |-> context, mem |-> mem]
    [] th.line = 513 ->
         [th |-> [Goto(th, 516) EXCEPT !.rk = IF th.op = "enc" THEN "ek" ELSE "dk"],
          context |-> context, mem |-> mem]
    [] th.line \in {516, 518, 520, 522, 524, 526} ->
         [th |-> SetP(th, OF(th.p, At128(RoundKeys(th, context), 4 * (th.line - 516))),
                      IF th.line = 526 THEN 529 ELSE th.line + 1),
          context |-> context, mem |-> mem]
    [] th.line \in {517, 519, 521, 523, 525} ->
         [th |-> SetP(th, EF(th.p, At128(RoundKeys(th, context), 4 * (th.line - 516))),
                      th.line + 1),
          context |-> context, mem |-> mem]
    [] th.line = 529 ->
         [th |-> Goto(th, IF context.nr = 12 THEN 532 ELSE 536),
          context |-> context, mem |-> mem]
    [] th.line = 536 ->
         [th |-> Goto(th, IF context.nr = 14 THEN 539 ELSE 548),
          context |-> context, mem |-> mem]
    [] th.line \in {539, 548, 550} ->
         [th |-> SetP(th, EF(th.p, At128(RoundKeys(th, context),
                                         IF th.line = 550 THEN 52 ELSE 44)),
                      th.line + 1),
          context |-> context, mem |-> mem]
    [] th.line \in {540, 549, 551} ->
         [th |-> SetP(th, OF(th.p, At128(RoundKeys(th, context),
                                         IF th.line = 551 THEN 56 ELSE 48)),
                      th.line + 1),
          context |-> context, mem |-> mem]
    [] th.line \in {532, 541, 552} ->
         [th |-> SetP(th, XOR128(th.p, At128(RoundKeys(th, context),
                                             CASE th.line = 532 -> 44
                                               [] th.line = 541 -> 52
                                               [] OTHER -> 60)),
                      th.line + 1),
          context |-> context, mem |-> mem]
    [] th.line \in {533, 542, 553} ->
         [th |-> SetQ(th, SL2(th.p), th.line + 1), context |-> context, mem |-> mem]
    [] th.line \in {534, 543, 554} ->
         [th |-> SetQ(th, XOR128(th.q, At128(RoundKeys(th, context),
                                             CASE th.line = 534 -> 48
                                               [] th.line = 543 -> 56
                                               [] OTHER -> 64)),
                      558),
          context |-> context, mem |-> mem]
    [] OTHER ->
         [th |-> Goto(th, th.line + 1), context |-> context,
          mem |-> PutBytes(mem, th.output + 4 * (th.line - 558),
                           STORE32BE(th.q[th.line - 557]))]

\* the call run from th.line to its return
RECURSIVE RunThread(_, _, _)
RunThread(th, context, mem) ==
  IF th.line = ReturnLine
    THEN [th |-> th, context |-> context, mem |-> mem]
    ELSE Do([r \in {BlockStep(th, context, mem)} |-> RunThread(r.th, r.context, r.mem)])

\* the lines a block operation executes, in order
BlockFlow(op, context, mem, input, output) ==
  RunThread(ThreadAt(op, 1, input, output), context, mem).th.path

\* Control flow of ariaInit: the function run statement by statement on its arguments
\* and locals, each statement acting on the data and each branch decided by the code's
\* condition on the values at that point.

\* the closing brace of ariaInit, reached by each of its return statements
InitReturnLine == 489

\* ariaInit entered: its arguments, the locals i (not yet assigned), w (holding w0) and
\* ck1, ck2, ck3 (ck lists the offsets in c of those assigned so far), at the first
\* statement, line 362
InitAt(context, key, keyLen, w0) ==
  [line |-> 362, context |-> context, key |-> key, keyLen |-> keyLen, i |-> 0,
   w |-> w0, ck |-> << >>, error |-> "none", path |-> << >>]

\* the statement at st.line of ariaInit: the arguments, the locals and the context
\* memory after it.  A for statement assigns i when entered from above and increments
\* it when reached from its body, then tests its condition
InitStep(st) ==
  CASE st.line = 362 ->
         Goto(st, IF st.context = NULL \/ st.key = NULL THEN 363 ELSE 366)
    [] st.line = 363 ->
         [Goto(st, InitReturnLine) EXCEPT !.error = ERROR_INVALID_PARAMETER]
    [] st.line = 366 -> Goto(st, IF st.keyLen = 16 THEN 369 ELSE 376)
    [] st.line = 376 -> Goto(st, IF st.keyLen = 24 THEN 379 ELSE 386)
    [] st.line = 386 -> Goto(st, IF st.keyLen = 32 THEN 389 ELSE 399)
    [] st.line \in {369, 379, 389} ->
         [Goto(st, st.line + 3) EXCEPT
            !.context = Ptr([st.context[1] EXCEPT
                               !.nr = CASE st.line = 369 -> 12
                                        [] st.line = 379 -> 14
                                        [] OTHER -> 16])]
    [] st.line \in {372, 382, 392} ->
         [Goto(st, st.line + 1) EXCEPT
            !.ck = << CASE st.line = 372 -> 0 [] st.line = 382 -> 4 [] OTHER -> 8 >>]
    [] st.line \in {373, 383, 393} ->
         [Goto(st, st.line + 1) EXCEPT
            !.ck = Append(st.ck, CASE st.line = 373 -> 4 [] st.line = 383 -> 8
                                   [] OTHER -> 0)]
    [] st.line \in {374, 384, 394} ->
         [Goto(st, 403) EXCEPT
            !.ck = Append(st.ck, CASE st.line = 374 -> 8 [] st.line = 384 -> 0
                                   [] OTHER -> 4)]
    [] st.line = 399 ->
         [Goto(st, InitReturnLine) EXCEPT !.error = ERROR_INVALID_KEY_LENGTH]
    [] st.line = 403 -> [Goto(st, 406) EXCEPT !.keyLen = st.keyLen \div 4]
    [] st.line = 406 ->
         Do([i \in {IF st.path[Len(st.path)] = 403 THEN 0 ELSE st.i + 1} |->
         [Goto(st, IF i < 16 THEN 408 ELSE 419) EXCEPT !.i = i]])
    [] st.line = 408 -> Goto(st, IF st.i < st.keyLen THEN 410 ELSE 414)
    [] st.line = 410 ->
         [Goto(st, 406) EXCEPT !.w = [st.w EXCEPT ![st.i + 1] = LOAD32BE(st.key[1], st.i * 4)]]
    [] st.line = 414 -> [Goto(st, 406) EXCEPT !.w = [st.w EXCEPT ![st.i + 1] = Zero32]]
    [] st.line = 419 -> [Goto(st, 422) EXCEPT !.w = Put128(st.w, 8, MOV128(At128(st.w, 4)))]
    [] st.line = 422 -> [Goto(st, 423) EXCEPT !.w = Put128(st.w, 4, MOV128(At128(st.w, 0)))]
    [] st.line = 423 ->
         [Goto(st, 424) EXCEPT !.w = Put128(st.w, 4, OF(At128(st.w, 4), At128(c, st.ck[1])))]
    [] st.line = 424 ->
         [Goto(st, 426) EXCEPT !.w = Put128(st.w, 4, XOR128(At128(st.w, 4), At128(st.w, 8)))]
    [] st.line = 426 -> [Goto(st, 427) EXCEPT !.w = Put128(st.w, 8, MOV128(At128(st.w, 4)))]
    [] st.line = 427 ->
         [Goto(st, 428) EXCEPT !.w = Put128(st.w, 8, EF(At128(st.w, 8), At128(c, st.ck[2])))]
    [] st.line = 428 ->
         [Goto(st, 430) EXCEPT !.w = Put128(st.w, 8, XOR128(At128(st.w, 8), At128(st.w, 0)))]
    [] st.line = 430 -> [Goto(st, 431) EXCEPT !.w = Put128(st.w, 12, MOV128(At128(st.w, 8)))]
    [] st.line = 431 ->
         [Goto(st, 432) EXCEPT !.w = Put128(st.w, 12, OF(At128(st.w, 12), At128(c, st.ck[3])))]
    [] st.line = 432 ->
         [Goto(st, 435) EXCEPT !.w = Put128(st.w, 12, XOR128(At128(st.w, 12), At128(st.w, 4)))]
    [] st.line = 435 -> Goto(st, 438)
    [] st.line \in 438..471 /\ (st.line - 438) % 2 = 0 ->
         Do([k \in {(st.line - 438) \div 2} |->
         [Goto(st, st.line + 1) EXCEPT
            !.context = Ptr([st.context[1] EXCEPT
              !.ek = Put128(st.context[1].ek, 4 * k,
                            ROL128(At128(st.w, (4 * (k + 1)) % 16),
                                   << 109, 97, 61, 31, 19 >>[(k \div 4) + 1]))])]])
    [] st.line \in 438..471 /\ (st.line - 438) % 2 = 1 ->
         Do([k \in {(st.line - 438) \div 2} |->
         [Goto(st, IF st.line = 471 THEN 474 ELSE st.line + 1) EXCEPT
            !.context = Ptr([st.context[1] EXCEPT
              !.ek = Put128(st.context[1].ek, 4 * k,
                            XOR128(At128(st.context[1].ek, 4 * k),
                                   At128(st.w, (4 * k) % 16)))])]])
    [] st.line = 474 -> Goto(st, 476)
    [] st.line = 476 ->
         [Goto(st, 479) EXCEPT
            !.context = Ptr([st.context[1] EXCEPT
              !.dk = Put128(st.context[1].dk, 0,
                            MOV128(At128(st.context[1].ek, st.context[1].nr * 4)))])]
    [] st.line = 479 ->
         Do([i \in {IF st.path[Len(st.path)] = 476 THEN 1 ELSE st.i + 1} |->
         [Goto(st, IF i < st.context[1].nr THEN 481 ELSE 485) EXCEPT !.i = i]])
    [] st.line = 481 ->
         [Goto(st, 479) EXCEPT
            !.context = Ptr([st.context[1] EXCEPT
              !.dk = Put128(st.context[1].dk, st.i * 4,
                            A(At128(st.context[1].ek, (st.context[1].nr - st.i) * 4)))])]
    [] st.line = 485 ->
         [Goto(st, 488) EXCEPT
            !.context = Ptr([st.context[1] EXCEPT
              !.dk = Put128(st.context[1].dk, st.i * 4,
                            MOV128(At128(st.context[1].ek, 0)))])]
    [] OTHER -> [Goto(st, InitReturnLine) EXCEPT !.error = NO_ERROR]

\* most statements one call of ariaInit executes in the model: the longest call, with a
\* 32-byte key, executes 138
MaxStatements == 256

\* ariaInit run from st.line for n statements, or to its return if that comes first: the
\* first half of them, then the rest
RECURSIVE InitRun(_, _)
InitRun(st, n) ==
  IF st.line = InitReturnLine \/ n = 0 THEN st
  ELSE IF n = 1 THEN InitStep(st)
  ELSE Do([r \in {InitRun(st, n \div 2)} |-> InitRun(r, n - n \div 2)])

\* the lines a call of ariaInit executes, in order
InitFlow(context, key, keyLen, w0) ==
  InitRun(InitAt(context, key, keyLen, w0), MaxStatements).path

\* ariaDeinit clearing sizeof(context->ek) bytes short of the whole context: dk is left
ariaDeinit_short(context) == [context EXCEPT !.nr = 0, !.ek = Words(68, Zero32)]

\* ariaDeinit(context): the context memory after osMemset(context, 0, sizeof(AriaContext))
ariaDeinit(context) == ZeroContext

(***************************************************************************)
(* Inputs of the model                                                     *)
(***************************************************************************)

\* largest keyLen passed to ariaInit
MaxKeyLen == 64

\* longest chain of block operations each run in place on the output of the one before
MaxChain == 2

\* key buffers of 32 bytes; ariaInit reads the first keyLen bytes.  RfcKey is the key
\* 00 01 .. 1F of the RFC 5794 test vectors, whose first 16 and 24 bytes are the
\* 128-bit and 192-bit test keys
RfcKey == [i \in 1..32 |-> i - 1]
AltKey == [i \in 1..32 |-> (255 - 7 * i) % 256]
KeyBuffers == {RfcKey, AltKey}

\* 16-byte blocks; RfcPlain is 00 11 22 .. FF
RfcPlain == [i \in 1..16 |-> 17 * (i - 1)]
AltBlock == [i \in 1..16 |-> (254 - 13 * i) % 256]
Blocks == {RfcPlain, AltBlock}

\* what uninitialised memory may hold: a context that was only allocated, and the
\* local array w of ariaInit before its first statement
FreshContexts == {[nr |-> 7, ek |-> Words(68, <<165, 165, 165, 165>>),
                   dk |-> Words(68, <<90, 90, 90, 90>>)]}
FreshScratch == {Words(16, Zero32), Words(16, <<165, 165, 165, 165>>)}

\* what a 16-byte buffer of the caller holds before anything is written to it
FreshBuffer == [i \in 1..16 |-> 204]

(***************************************************************************)
(* The state: one AriaContext and its single-threaded caller               *)
(***************************************************************************)

VARIABLES
  ctx,    \* the AriaContext memory: nr, ek[68], dk[68]
  pc,     \* the caller: "idle", or "returned" when a call has just returned
  call,   \* the call that has just returned, with its arguments and results
  cur,    \* the last successful ariaInit not followed by ariaDeinit: its key and the
          \* context memory it left
  probe,  \* a layer of the cipher applied on its own: the layer, its argument x, the
          \* value y reached and the number n of applications
  contexts,  \* threads: the AriaContext memories the threads were given
  memory,    \* threads: the byte memory that holds the threads' buffers
  thr,       \* threads: each thread's call, the line it is at and its locals
  start,     \* threads: the key length and the sharing chosen at the start
  boot,      \* hardware: a back-end initialisation function, statement by statement
  rng,       \* hardware: a call of the gd32f4xx trngGetRandomData, its locals and output
  mtx,       \* hardware: the device crypto mutex and the callers of the routines using it
  md         \* hardware: an rx65n hash context and the Update call in progress

vars == << ctx, pc, call, cur, probe, contexts, memory, thr, start, boot, rng, mtx, md >>

\* the variables of the caller of the four functions, of the layers and of the threads
callerVars == << ctx, pc, call, cur >>
layerVars == << probe >>
threadVars == << contexts, memory, thr, start >>
hwVars == << boot, rng, mtx, md >>
otherVars == << probe, contexts, memory, thr, start, boot, rng, mtx, md >>

NoProbe == [f |-> "none", x |-> << >>, y |-> << >>, n |-> 0]

\* no layer is applied on its own, no threads run
NoLayers == probe = NoProbe
NoThreads == contexts = << >> /\ memory = << >> /\ thr = << >> /\ start = << >>

\* no hardware routine is running
NoBoot == boot = << >>
NoRng == rng = << >>
NoMutex == mtx = << >>
NoHash == md = << >>
NoHardware == NoBoot /\ NoRng /\ NoMutex /\ NoHash

NoKey == [key |-> << >>, keyLen |-> 0, context |-> << >>]

NoCall ==
  [op |-> "none", context |-> NULL, key |-> NULL, keyLen |-> 0, error |-> "none",
   pre |-> << >>, w |-> << >>, input |-> << >>, output |-> << >>,
   depth |-> 0, prevOp |-> "none", prevIn |-> << >>,
   mem |-> << >>, inAt |-> 0, outAt |-> 0, after |-> << >>, flow |-> << >>,
   ck |-> << >>]

Init ==
  /\ ctx \in FreshContexts
  /\ pc = "idle"
  /\ call = NoCall
  /\ cur = NoKey
  /\ NoLayers
  /\ NoThreads
  /\ NoHardware

\* the caller calls ariaInit(context, key, keyLen)
CallInit ==
  /\ pc = "idle"
  /\ \E context \in {NULL, Ptr(ctx)}, key \in {NULL} \cup {Ptr(k) : k \in KeyBuffers},
        keyLen \in 0..MaxKeyLen, w0 \in FreshScratch :
       \E r \in {ariaInit(context, key, keyLen, w0)} :
          /\ ctx' = IF context = NULL THEN ctx ELSE r.context[1]
          /\ call' = [NoCall EXCEPT !.op = "init", !.context = context, !.key = key,
                                    !.keyLen = keyLen, !.error = r.error, !.pre = ctx,
                                    !.w = r.w, !.ck = r.ck,
                                    !.flow = InitFlow(context, key, keyLen, w0)]
          /\ cur' = IF r.error = NO_ERROR
                       THEN [key |-> key[1], keyLen |-> keyLen, context |-> r.context[1]]
                       ELSE cur
  /\ pc' = "returned"
  /\ UNCHANGED otherVars

\* the caller calls ariaDeinit(&ctx)
CallDeinit ==
  /\ pc = "idle"
  /\ ctx' = ariaDeinit(ctx)
  /\ call' = [NoCall EXCEPT !.op = "deinit", !.context = Ptr(ctx), !.pre = ctx]
  /\ cur' = NoKey
  /\ pc' = "returned"
  /\ UNCHANGED otherVars

\* the 16 bytes of the memory mem at p
Bytes16(mem, p) == SubSeq(mem, p + 1, p + 16)

\* the block operation op, called as a, has returned r
BlockReturn(op, r, a) ==
  /\ ctx' = r.context
  /\ call' = [NoCall EXCEPT !.op = op, !.context = Ptr(ctx), !.pre = ctx,
                            !.mem = a.mem, !.inAt = a.input, !.outAt = a.output,
                            !.after = r.mem,
                            !.flow = BlockFlow(op, ctx, a.mem, a.input, a.output),
                            !.input = Bytes16(a.mem, a.input),
                            !.output = Bytes16(r.mem, a.output),
                            !.depth = call.depth + 1,
                            !.prevOp = call.op, !.prevIn = call.input]
  /\ cur' = cur
  /\ pc' = "returned"
  /\ UNCHANGED otherVars

\* the block calls the caller may make: its memory, of two 16-byte buffers, and where
\* input and output point.  A new block is in the first buffer and output is that same
\* buffer or the other one; or the block operation that has just returned is followed
\* by one run in place on its output
BlockCalls ==
  IF pc = "idle"
    THEN {[mem |-> b \o FreshBuffer, input |-> 0, output |-> o] : b \in Blocks, o \in {0, 16}}
  ELSE IF call.op \in {"enc", "dec"} /\ call.depth < MaxChain
    THEN {[mem |-> call.after, input |-> call.outAt, output |-> call.outAt]}
  ELSE {}

\* the caller calls ariaEncryptBlock(&ctx, input, output)
CallEncrypt ==
  \E a \in BlockCalls :
    \E r \in {ariaEncryptBlock(ctx, a.mem, a.input, a.output)} :
      BlockReturn("enc", r, a)

\* the caller calls ariaDecryptBlock(&ctx, input, output)
CallDecrypt ==
  \E a \in BlockCalls :
    \E r \in {ariaDecryptBlock(ctx, a.mem, a.input, a.output)} :
      BlockReturn("dec", r, a)

\* the caller has used the results and goes on
Resume ==
  /\ pc = "returned"
  /\ pc' = "idle"
  /\ call' = NoCall
  /\ UNCHANGED << ctx, cur >>
  /\ UNCHANGED otherVars

Next ==
  \/ CallInit
  \/ CallDeinit
  \/ CallEncrypt
  \/ CallDecrypt
  \/ Resume

Spec == Init /\ [][Next]_vars

(***************************************************************************)
(* The layers on their own: the diffusion layer A and the four S-boxes,    *)
(* each applied to an argument taken from a set                            *)
(***************************************************************************)

\* 128-bit states with one non-zero byte, which span all states under XOR, and the
\* states loaded from the blocks
UnitState(k, v) == [i \in 1..4 |-> [j \in 1..4 |-> IF 4 * (i - 1) + j = k THEN v ELSE 0]]
DiffusionArgs ==
  {UnitState(k, v) : k \in 1..16, v \in 1..255} \cup {Load128(b, 0) : b \in Blocks}

\* the table an S-box name stands for, and the S-box said to undo it
SboxTable(f) == CASE f = "sb1" -> sb1 [] f = "sb2" -> sb2 [] f = "sb3" -> sb3 [] OTHER -> sb4
SboxPartner(f) ==
  CASE f = "sb1" -> "sb3" [] f = "sb2" -> "sb4" [] f = "sb3" -> "sb1" [] OTHER -> "sb2"
SboxNames == {"sb1", "sb2", "sb3", "sb4"}

LayersInit ==
  /\ probe \in {[f |-> "A", x |-> x, y |-> x, n |-> 0] : x \in DiffusionArgs}
              \cup {[f |-> f, x |-> b, y |-> b, n |-> 0] : f \in SboxNames, b \in 0..255}
  /\ ctx \in FreshContexts
  /\ pc = "idle"
  /\ call = NoCall
  /\ cur = NoKey
  /\ NoThreads
  /\ NoHardware

\* A(d, t) applied to the value reached, at most twice
ApplyA ==
  /\ probe.f = "A" /\ probe.n < 2
  /\ probe' = [probe EXCEPT !.y = A(probe.y), !.n = probe.n + 1]
  /\ UNCHANGED callerVars
  /\ UNCHANGED threadVars
  /\ UNCHANGED hwVars

\* the S-box looked up at the argument
ApplySbox ==
  /\ probe.f \in SboxNames /\ probe.n = 0
  /\ probe' = [probe EXCEPT !.y = SboxTable(probe.f)[probe.y + 1], !.n = 1]
  /\ UNCHANGED callerVars
  /\ UNCHANGED threadVars
  /\ UNCHANGED hwVars

\* the partner S-box looked up at the value the S-box gave
ApplyPartner ==
  /\ probe.f \in SboxNames /\ probe.n = 1
  /\ probe' = [probe EXCEPT !.y = SboxTable(SboxPartner(probe.f))[probe.y + 1], !.n = 2]
  /\ UNCHANGED callerVars
  /\ UNCHANGED threadVars
  /\ UNCHANGED hwVars

LayersNext ==
  \/ ApplyA
  \/ ApplySbox
  \/ ApplyPartner

SpecLayers == LayersInit /\ [][LayersNext]_vars

(***************************************************************************)
(* Threads that run block operations at the same time, statement by        *)
(* statement, on a context they share or on contexts of their own, each    *)
(* with buffers of its own                                                 *)
(***************************************************************************)

\* number of threads
MaxThreads == 2

\* the context a key gives with no history: ariaInit on all-zero memory
KeyedContext ==
  [key \in KeyBuffers, keyLen \in {16, 24, 32} |->
     ariaInit(Ptr(ZeroContext), Ptr(key), keyLen, Words(16, Zero32)).context[1]]

\* thread t encrypts if t is odd and decrypts in place if t is even; its two buffers are
\* the 32 bytes of mem from 32 * (t - 1); it is given context 1 when the context is
\* shared, else context 1 or 2 in turn
ThreadCall(t, sharing) ==
  ThreadAt(IF t % 2 = 1 THEN "enc" ELSE "dec",
           IF sharing THEN 1 ELSE ((t - 1) % 2) + 1,
           32 * (t - 1),
           IF t % 2 = 1 THEN 32 * (t - 1) + 16 ELSE 32 * (t - 1))

\* the memory at the start: a block in each thread's first buffer
StartMem ==
  [i \in 1..(32 * MaxThreads) |->
     IF (i - 1) % 32 >= 16 THEN FreshBuffer[((i - 1) % 32) - 15]
     ELSE IF ((i - 1) \div 32) % 2 = 0 THEN RfcPlain[((i - 1) % 32) + 1]
     ELSE AltBlock[((i - 1) % 32) + 1]]

\* the contexts at the start: initialised with keys of keyLen and of 24 bytes
StartContexts(keyLen) == << KeyedContext[RfcKey, keyLen], KeyedContext[AltKey, 24] >>

ThreadsInit ==
  /\ \E keyLen \in {16, 24, 32}, sharing \in BOOLEAN :
       /\ contexts = StartContexts(keyLen)
       /\ thr = [t \in 1..MaxThreads |-> ThreadCall(t, sharing)]
       /\ start = [keyLen |-> keyLen, sharing |-> sharing]
  /\ memory = StartMem
  /\ ctx \in FreshContexts
  /\ pc = "idle"
  /\ call = NoCall
  /\ cur = NoKey
  /\ NoLayers
  /\ NoHardware

\* the block operations with q declared static: one q for all threads
ThreadStep_staticLocals(t) ==
  /\ thr[t].line # ReturnLine
  /\ \E r \in {BlockStep(thr[t], contexts[thr[t].cx], memory)} :
       /\ thr' = [u \in DOMAIN thr |->
                    IF u = t THEN r.th ELSE [thr[u] EXCEPT !.q = r.th.q]]
       /\ contexts' = [contexts EXCEPT ![thr[t].cx] = r.context]
       /\ memory' = r.mem
  /\ UNCHANGED start
  /\ UNCHANGED callerVars
  /\ UNCHANGED layerVars
  /\ UNCHANGED hwVars

\* thread t runs the statement it is at
ThreadStep(t) ==
  /\ thr[t].line # ReturnLine
  /\ \E r \in {BlockStep(thr[t], contexts[thr[t].cx], memory)} :
       /\ thr' = [thr EXCEPT ![t] = r.th]
       /\ contexts' = [contexts EXCEPT ![thr[t].cx] = r.context]
       /\ memory' = r.mem
  /\ UNCHANGED start
  /\ UNCHANGED callerVars
  /\ UNCHANGED layerVars
  /\ UNCHANGED hwVars

ThreadsNext == \E t \in DOMAIN thr : ThreadStep(t)

SpecThreads == ThreadsInit /\ [][ThreadsNext]_vars

(***************************************************************************)
(* Hardware back-ends: initialisation of the accelerator                   *)
(***************************************************************************)

\* what the cipher's variables hold while a hardware routine is modelled
NoCipher ==
  /\ ctx \in FreshContexts
  /\ pc = "idle"
  /\ call = NoCall
  /\ cur = NoKey
  /\ NoLayers
  /\ NoThreads

cipherVars == << ctx, pc, call, cur, probe, contexts, memory, thr, start >>

\* The statements that follow the creation of the mutex, in source order.  Each is
\* compiled when every flag of `when` is ENABLED, stands inside the if(!error) at line `guard`, is at
\* line `line`, and `sets` tells whether its result is assigned to error.
esp32s3CryptoInit ==
  << [step |-> "esp32s3RngInit", when |-> {"TRNG"}, guard |-> 69, line |-> 73, sets |-> FALSE],
     [step |-> "esp32s3ShaInit", when |-> {"HASH"}, guard |-> 69, line |-> 78, sets |-> FALSE],
     [step |-> "esp32s3AesInit", when |-> {"CIPHER", "AES"}, guard |-> 69, line |-> 83,
      sets |-> FALSE],
     [step |-> "esp32s3RsaInit", when |-> {"PKC"}, guard |-> 69, line |-> 88, sets |-> FALSE] >>

pic32mzCryptoInit ==
  << [step |-> "trngInit", when |-> {"TRNG"}, guard |-> 67, line |-> 70, sets |-> TRUE],
     [step |-> "ba414eInit", when |-> {"PKC"}, guard |-> 76, line |-> 79, sets |-> TRUE] >>

samv71CryptoInit ==
  << [step |-> "trngInit", when |-> {"TRNG"}, guard |-> 69, line |-> 72, sets |-> TRUE],
     [step |-> "PMC_PCER1 = ICM", when |-> {"HASH"}, guard |-> 78, line |-> 81, sets |-> FALSE],
     [step |-> "PMC_PCER1 = AES", when |-> {"CIPHER"}, guard |-> 87, line |-> 90, sets |-> FALSE] >>

CryptoInitNames == {"esp32s3CryptoInit", "pic32mzCryptoInit", "samv71CryptoInit"}

CryptoInit(fn) ==
  CASE fn = "esp32s3CryptoInit" -> esp32s3CryptoInit
    [] fn = "pic32mzCryptoInit" -> pic32mzCryptoInit
    [] OTHER -> samv71CryptoInit

\* the *_SUPPORT flags a function's statements are compiled under
SupportFlags(fn) == UNION {CryptoInit(fn)[i].when : i \in DOMAIN CryptoInit(fn)}

\* the statements left by the preprocessor when the flags in `enabled` are ENABLED
RECURSIVE Compiled(_, _)
Compiled(statements, enabled) ==
  IF statements = << >> THEN << >>
  ELSE IF Head(statements).when \subseteq enabled
    THEN << Head(statements) >> \o Compiled(Tail(statements), enabled)
  ELSE Compiled(Tail(statements), enabled)

\* if(!error) with a failure recorded: the guarded statement is not executed
Guarded_never(error) == FALSE

\* if(!error): the guarded statement is not executed when error is set
Guarded(error) == error # NO_ERROR

\* what a sub-module initialisation that returns error_t may return
SubInitResults == {NO_ERROR, ERROR_FAILURE, ERROR_OUT_OF_RESOURCES}

BootInit ==
  /\ \E fn \in CryptoInitNames : \E enabled \in SUBSET SupportFlags(fn) :
       boot = [fn |-> fn, enabled |-> enabled,
               code |-> Compiled(CryptoInit(fn), enabled),
               at |-> 0, error |-> "none", created |-> "none",
               ran |-> << >>, result |-> "none"]
  /\ NoRng /\ NoMutex /\ NoHash
  /\ NoCipher

\* error = NO_ERROR; if(!osCreateMutex(&mutex)) error = ERROR_OUT_OF_RESOURCES;
BootCreateMutex ==
  /\ boot.at = 0
  /\ \E created \in {"created", "failed"} :
       boot' = [boot EXCEPT !.created = created,
                            !.error = IF created = "created" THEN NO_ERROR
                                                             ELSE ERROR_OUT_OF_RESOURCES,
                            !.at = 1]
  /\ UNCHANGED << rng, mtx, md >>
  /\ UNCHANGED cipherVars

\* if(!error) finds error set: the statement it guards is passed over
BootPassOver ==
  /\ boot.at \in DOMAIN boot.code
  /\ Guarded(boot.error)
  /\ boot' = [boot EXCEPT !.at = boot.at + 1]
  /\ UNCHANGED << rng, mtx, md >>
  /\ UNCHANGED cipherVars

\* a sub-module initialisation is called; error = its result where the code assigns it
BootCall ==
  /\ boot.at \in DOMAIN boot.code
  /\ ~Guarded(boot.error)
  /\ \E st \in {boot.code[boot.at]} :
       \E r \in IF st.sets THEN SubInitResults ELSE {"void"} :
         boot' = [boot EXCEPT !.ran = Append(boot.ran, [step |-> st.step, line |-> st.line,
                                                        result |-> r]),
                              !.error = IF st.sets THEN r ELSE boot.error,
                              !.at = boot.at + 1]
  /\ UNCHANGED << rng, mtx, md >>
  /\ UNCHANGED cipherVars

\* return error;
BootReturn ==
  /\ boot.at = Len(boot.code) + 1
  /\ boot' = [boot EXCEPT !.result = boot.error, !.at = Len(boot.code) + 2]
  /\ UNCHANGED << rng, mtx, md >>
  /\ UNCHANGED cipherVars

BootNext ==
  \/ BootCreateMutex
  \/ BootPassOver
  \/ BootCall
  \/ BootReturn

SpecBoot == BootInit /\ [][BootNext]_vars

(***************************************************************************)
(* gd32f4xx: the true random number generator                              *)
(***************************************************************************)

SUCCESS == "SUCCESS"
ERROR == "ERROR"

\* the number of polls of TRNG_FLAG_DRDY after which trng_ready_check gives up
ReadyTimeout == 65535

\* trng_ready_check() when DRDY first reads SET at poll number readyAt: the loop polls
\* until the flag is SET or timeout reaches ReadyTimeout, then tests the flag last read
trng_ready_check(readyAt) ==
  Do([timeout \in {IF readyAt < ReadyTimeout THEN readyAt ELSE ReadyTimeout} |->
  Do([trng_flag \in {IF readyAt <= timeout THEN "SET" ELSE "RESET"} |->
  IF trng_flag = "RESET" THEN ERROR ELSE SUCCESS])])

\* the polls at which the data-ready flag may first read SET
ReadyAts == {1, ReadyTimeout, ReadyTimeout + 1}

\* the longest request
MaxLength == 9

\* A byte with its origin: read from the TRNG data register (and by which read), left
\* in the uninitialised local, shifted in by >>, or the caller's buffer as it was.
\* v is the value of the byte, or for an indeterminate byte the set of its values.
TrngByte(n, b) == [from |-> "trng", read |-> n, v |-> b]
OtherByte(from, b) == [from |-> from, read |-> 0, v |-> b]

\* the 32-bit values the data register may deliver, least significant byte first
TrngWords == {<< 17, 34, 51, 68 >>, << 239, 190, 173, 222 >>}

\* What a byte of the uninitialised local value may hold on entry: anything.  The
\* code only copies and shifts value, so such a byte is carried as the set of the
\* values it may have (v is that set) and is never given one of them.
UninitBytes == 0..255

\* value >>= 8
ShiftValue(value) == << value[2], value[3], value[4], OtherByte("shift", 0) >>

TrngInit ==
  /\ \E length \in 0..MaxLength :
       rng = [length |-> length,
              data |-> [k \in 1..length |-> OtherByte("caller", 204)],
              i |-> 0,
              value |-> [k \in 1..4 |-> OtherByte("uninit", UninitBytes)],
              status |-> SUCCESS,
              checks |-> << >>,
              line |-> 117, mutex |-> "free", result |-> "none"]
  /\ NoBoot /\ NoMutex /\ NoHash
  /\ NoCipher

\* osAcquireMutex(&gd32f4xxCryptoMutex); i = 0
TrngAcquire ==
  /\ rng.line = 117
  /\ rng' = [rng EXCEPT !.mutex = "held", !.line = 120]
  /\ UNCHANGED << boot, mtx, md >>
  /\ UNCHANGED cipherVars

\* i < length, (i % 4) == 0 and the ready check succeeds: a new value is read
TrngReady ==
  /\ rng.line = 120 /\ rng.i < rng.length /\ rng.i % 4 = 0
  /\ \E readyAt \in ReadyAts, w \in TrngWords :
       /\ trng_ready_check(readyAt) = SUCCESS
       /\ rng' = [rng EXCEPT !.status = SUCCESS,
                             !.checks = Append(rng.checks, SUCCESS),
                             !.value = [k \in 1..4 |-> TrngByte(Len(rng.checks) + 1, w[k])],
                             !.line = 133]
  /\ UNCHANGED << boot, mtx, md >>
  /\ UNCHANGED cipherVars

\* i < length, (i % 4) == 0 and the ready check fails: value is left as it is
TrngNotReady ==
  /\ rng.line = 120 /\ rng.i < rng.length /\ rng.i % 4 = 0
  /\ \E readyAt \in ReadyAts :
       /\ trng_ready_check(readyAt) = ERROR
       /\ rng' = [rng EXCEPT !.status = ERROR,
                             !.checks = Append(rng.checks, ERROR),
                             !.line = 133]
  /\ UNCHANGED << boot, mtx, md >>
  /\ UNCHANGED cipherVars

\* i < length and (i % 4) != 0: no new value
TrngSameValue ==
  /\ rng.line = 120 /\ rng.i < rng.length /\ rng.i % 4 # 0
  /\ rng' = [rng EXCEPT !.line = 133]
  /\ UNCHANGED << boot, mtx, md >>
  /\ UNCHANGED cipherVars

\* data[i] = value & 0xFF; value >>= 8; i++
TrngCopy ==
  /\ rng.line = 133
  /\ rng' = [rng EXCEPT !.data[rng.i + 1] = rng.value[1],
                        !.value = ShiftValue(rng.value),
                        !.i = rng.i + 1,
                        !.line = 120]
  /\ UNCHANGED << boot, mtx, md >>
  /\ UNCHANGED cipherVars

\* i == length: osReleaseMutex; return (status == SUCCESS) ? NO_ERROR : ERROR_FAILURE
TrngReturn ==
  /\ rng.line = 120 /\ rng.i >= rng.length
  /\ rng' = [rng EXCEPT !.mutex = "free",
                        !.result = IF rng.status = SUCCESS THEN NO_ERROR ELSE ERROR_FAILURE,
                        !.line = 143]
  /\ UNCHANGED << boot, mtx, md >>
  /\ UNCHANGED cipherVars

TrngNext ==
  \/ TrngAcquire
  \/ TrngReady
  \/ TrngNotReady
  \/ TrngSameValue
  \/ TrngCopy
  \/ TrngReturn

SpecTrng == TrngInit /\ [][TrngNext]_vars

(***************************************************************************)
(* Hardware back-ends: the device crypto mutex                             *)
(***************************************************************************)

\* the statements of a routine that matter to the mutex, with their lines
Acquire(line) == [op |-> "acquire", line |-> line, fn |-> ""]
Section(line) == [op |-> "section", line |-> line, fn |-> ""]
Release(line) == [op |-> "release", line |-> line, fn |-> ""]
CallOf(fn, line) == [op |-> "call", line |-> line, fn |-> fn]

\* osAcquireMutex at line a, the access to the hardware, osReleaseMutex at line r, and
\* nothing else that touches the mutex or returns
Locked(a, r) == << Acquire(a), Section(a + 1), Release(r) >>

rx65nRoutines ==
  [md5Update |-> Locked(99, 151),
   md5Final |-> << CallOf("md5Update", 181), CallOf("md5ProcessBlock", 191) >>,
   md5ProcessBlock |-> Locked(227, 233),
   sha1Update |-> Locked(272, 324),
   sha1Final |-> << CallOf("sha1Update", 354), CallOf("sha1ProcessBlock", 364) >>,
   sha1ProcessBlock |-> Locked(400, 406),
   sha256Update |-> Locked(474, 526),
   sha256Final |-> << CallOf("sha256Update", 556), CallOf("sha256ProcessBlock", 566) >>,
   sha256ProcessBlock |-> Locked(602, 609)]

tm4c129Routines ==
  [md5Compute |-> Locked(166, 179),
   md5Update |-> Locked(224, 290),
   md5Final |-> Locked(305, 327),
   sha1Compute |-> Locked(371, 384),
   sha1Update |-> Locked(430, 497),
   sha1Final |-> Locked(512, 535),
   sha224Compute |-> Locked(579, 592),
   sha224Final |-> Locked(640, 666),
   sha256Compute |-> Locked(692, 705),
   sha256Update |-> Locked(754, 824),
   sha256Final |-> Locked(839, 865)]

gd32f4xxRoutines == [trngGetRandomData |-> Locked(117, 139)]

pic32cmlsRoutines == [sha256ProcessBlock |-> Locked(56, 60)]

Devices == {"rx65n", "tm4c129", "gd32f4xx", "pic32cm_ls"}

Routines(device) ==
  CASE device = "rx65n" -> rx65nRoutines
    [] device = "tm4c129" -> tm4c129Routines
    [] device = "gd32f4xx" -> gd32f4xxRoutines
    [] OTHER -> pic32cmlsRoutines

\* the number of concurrent callers
MaxCallers == 2

\* osAcquireMutex on a mutex that never blocks
CanAcquire_always(owner) == TRUE

\* osAcquireMutex returns only when no caller owns the mutex (0: free)
CanAcquire(owner) == owner = 0

\* the frame a caller is executing and the statement it is at (none: about to return)
TopFrame(caller) == caller.stack[Len(caller.stack)]
AtStatement(device, caller) ==
  /\ caller.stack # << >>
  /\ TopFrame(caller).at \in DOMAIN Routines(device)[TopFrame(caller).fn]
Statement(device, caller) == Routines(device)[TopFrame(caller).fn][TopFrame(caller).at]

\* the caller moves to the next statement of its frame
Advance(caller) == [caller EXCEPT !.stack[Len(caller.stack)].at = @ + 1]

MutexInit ==
  /\ \E device \in Devices :
       \E fns \in [1..MaxCallers -> DOMAIN Routines(device)] :
         mtx = [device |-> device, owner |-> 0,
                callers |-> [t \in 1..MaxCallers |->
                               [fn |-> fns[t],
                                stack |-> << [fn |-> fns[t], at |-> 1] >>,
                                trace |-> << >>]]]
  /\ NoBoot /\ NoRng /\ NoHash
  /\ NoCipher

\* osAcquireMutex(&mutex)
MutexAcquire(t) ==
  /\ AtStatement(mtx.device, mtx.callers[t])
  /\ \E st \in {Statement(mtx.device, mtx.callers[t])} :
       /\ st.op = "acquire"
       /\ CanAcquire(mtx.owner)
       /\ mtx' = [mtx EXCEPT
            !.owner = t,
            !.callers[t] = [Advance(@) EXCEPT
               !.trace = Append(@, [fn |-> TopFrame(mtx.callers[t]).fn, ev |-> "acquire",
                                    line |-> st.line])]]
  /\ UNCHANGED << boot, rng, md >>
  /\ UNCHANGED cipherVars

\* the statements between osAcquireMutex and osReleaseMutex: the hardware is used
MutexSection(t) ==
  /\ AtStatement(mtx.device, mtx.callers[t])
  /\ Statement(mtx.device, mtx.callers[t]).op = "section"
  /\ mtx' = [mtx EXCEPT !.callers[t] = Advance(@)]
  /\ UNCHANGED << boot, rng, md >>
  /\ UNCHANGED cipherVars

\* osReleaseMutex(&mutex)
MutexRelease(t) ==
  /\ AtStatement(mtx.device, mtx.callers[t])
  /\ \E st \in {Statement(mtx.device, mtx.callers[t])} :
       /\ st.op = "release"
       /\ mtx' = [mtx EXCEPT
            !.owner = 0,
            !.callers[t] = [Advance(@) EXCEPT
               !.trace = Append(@, [fn |-> TopFrame(mtx.callers[t]).fn, ev |-> "release",
                                    line |-> st.line])]]
  /\ UNCHANGED << boot, rng, md >>
  /\ UNCHANGED cipherVars

\* a call of another routine of the file: its frame is entered
MutexCall(t) ==
  /\ AtStatement(mtx.device, mtx.callers[t])
  /\ \E st \in {Statement(mtx.device, mtx.callers[t])} :
       /\ st.op = "call"
       /\ mtx' = [mtx EXCEPT !.callers[t] =
            [Advance(@) EXCEPT !.stack = Append(@, [fn |-> st.fn, at |-> 1])]]
  /\ UNCHANGED << boot, rng, md >>
  /\ UNCHANGED cipherVars

\* the end of a routine: its frame is left
MutexReturn(t) ==
  /\ mtx.callers[t].stack # << >>
  /\ ~AtStatement(mtx.device, mtx.callers[t])
  /\ mtx' = [mtx EXCEPT !.callers[t].stack = SubSeq(@, 1, Len(@) - 1)]
  /\ UNCHANGED << boot, rng, md >>
  /\ UNCHANGED cipherVars

MutexNext ==
  \/ \E t \in DOMAIN mtx.callers : MutexAcquire(t)
  \/ \E t \in DOMAIN mtx.callers : MutexSection(t)
  \/ \E t \in DOMAIN mtx.callers : MutexRelease(t)
  \/ \E t \in DOMAIN mtx.callers : MutexCall(t)
  \/ \E t \in DOMAIN mtx.callers : MutexReturn(t)

SpecMutex == MutexInit /\ [][MutexNext]_vars

(***************************************************************************)
(* rx65n: buffering of the message in the MD5, SHA-1 and SHA-256 routines  *)
(***************************************************************************)

\* the three families have the same statements but for the order of the length bytes
UpdateNames == {"md5Update", "sha1Update", "sha256Update"}

\* the longest message, in bytes
MaxMessage == 130

\* the most calls on a context in a history that has a call other than Update (Init
\* again, Final, ProcessBlock); histories of Update calls alone are as long as the
\* message allows
MaxCalls == 2

\* the size of a block and of context->buffer
BlockSize == 64

MIN(a, b) == IF a < b THEN a ELSE b

\* the lengths the caller passes: empty and short ones, and those around one and two
\* blocks
UpdateLengths ==
  (0..3) \cup ((BlockSize - 2)..(BlockSize + 2)) \cup ((2 * BlockSize - 2)..MaxMessage)

\* static const uint8_t padding[64] = {0x80, 0x00, ...}
padding == [k \in 1..BlockSize |-> IF k = 1 THEN 128 ELSE 0]

\* The byte at offset p of what data points into: the message, whose byte at position
\* p has the value p, or the padding string.
DataByte(src, p) == IF src = "padding" THEN padding[p + 1] ELSE p

\* bytes first..first+n-1 of the message
MessageBytes(first, n) == [k \in 1..n |-> DataByte("message", first + k - 1)]

\* n bytes at data
DataBytes(src, data, n) == [k \in 1..n |-> DataByte(src, data + k - 1)]

\* n = length, taking all that is left
BulkLength_all(length) == length

\* n = length - (length % 64)
BulkLength(length) == length - (length % BlockSize)

\* n = MIN(length, 64 - context->size)
FillLength(length, size) == MIN(length, BlockSize - size)

\* osMemcpy(context->buffer + context->size, data, n)
CopyToBuffer(buffer, size, src, data, n) ==
  [k \in DOMAIN buffer |-> IF k > size /\ k <= size + n
                             THEN DataByte(src, data + (k - size - 1))
                             ELSE buffer[k]]

\* paddingSize of Final: the padded length is congruent to 56 modulo 64
PaddingSize(size) == IF size < 56 THEN 56 - size ELSE BlockSize + 56 - size

\* totalSize & 0xFF after i times totalSize >>= 8
RECURSIVE LengthByte(_, _)
LengthByte(totalSize, i) ==
  IF i = 0 THEN totalSize % 256 ELSE LengthByte(totalSize \div 256, i - 1)

\* The loop of Final that stores totalSize (in bits) in the last 8 bytes of the buffer:
\* buffer[56 + i] in md5Final, buffer[63 - i] in sha1Final and sha256Final.
AppendLength(fn, buffer, bits) ==
  [k \in DOMAIN buffer |->
     IF k <= 56 THEN buffer[k]
     ELSE IF fn = "md5Update" THEN LengthByte(bits, k - 57)
     ELSE LengthByte(bits, BlockSize - k)]

\* md5Init, sha1Init, sha256Init on fresh memory: size = 0, totalSize = 0; the buffer
\* is not written
HashInit ==
  /\ \E fn \in UpdateNames :
       md = [fn |-> fn, size |-> 0, totalSize |-> 0,
             buffer |-> [k \in 1..BlockSize |-> -1],
             line |-> 0, length |-> 0, src |-> "message", data |-> 0, n |-> 0,
             bits |-> 0,
             passed |-> 0, start |-> 0, fed |-> << >>, writeEnd |-> 0,
             calls |-> 0, mixed |-> FALSE, last |-> "Init"]
  /\ NoBoot /\ NoRng /\ NoMutex
  /\ NoCipher

\* the caller passes the next length bytes of the message; osAcquireMutex
HashUpdate ==
  /\ md.line = 0
  /\ md.mixed => md.calls < MaxCalls
  /\ \E length \in {l \in UpdateLengths : l <= MaxMessage - md.passed} :
       md' = [md EXCEPT !.length = length,
                        !.calls = MIN(md.calls + 1, MaxCalls), !.src = "message", !.data = md.passed,
                        !.passed = md.passed + length,
                        !.n = 0, !.line = 102,
                        !.last = IF md.last \in {"Init", "Update"} THEN "Update"
                                                                   ELSE md.last]
  /\ UNCHANGED << boot, rng, mtx >>
  /\ UNCHANGED cipherVars

\* while(length > 0), context->size == 0 && length >= 64: blocks are passed from data
HashBulk ==
  /\ md.line = 102 /\ md.length > 0
  /\ md.size = 0 /\ md.length >= BlockSize
  /\ \E n \in {BulkLength(md.length)} :
       md' = [md EXCEPT !.n = n,
                        !.fed = md.fed \o DataBytes(md.src, md.data, n),
                        !.totalSize = md.totalSize + n,
                        !.data = md.data + n,
                        !.length = md.length - n]
  /\ UNCHANGED << boot, rng, mtx >>
  /\ UNCHANGED cipherVars

\* while(length > 0), otherwise: n bytes are copied to the buffer
HashFill ==
  /\ md.line = 102 /\ md.length > 0
  /\ ~(md.size = 0 /\ md.length >= BlockSize)
  /\ \E n \in {FillLength(md.length, md.size)} :
       md' = [md EXCEPT !.n = n,
                        !.buffer = CopyToBuffer(md.buffer, md.size, md.src, md.data, n),
                        !.writeEnd = md.size + n,
                        !.size = md.size + n,
                        !.totalSize = md.totalSize + n,
                        !.data = md.data + n,
                        !.length = md.length - n,
                        !.line = 138]
  /\ UNCHANGED << boot, rng, mtx >>
  /\ UNCHANGED cipherVars

\* if(context->size == 64): the buffer is passed and emptied
HashFlush ==
  /\ md.line = 138
  /\ md.size = BlockSize
  /\ md' = [md EXCEPT !.fed = md.fed \o md.buffer, !.size = 0, !.line = 102]
  /\ UNCHANGED << boot, rng, mtx >>
  /\ UNCHANGED cipherVars

\* if(context->size == 64) does not hold: the buffer is kept
HashKeep ==
  /\ md.line = 138
  /\ md.size # BlockSize
  /\ md' = [md EXCEPT !.line = 102]
  /\ UNCHANGED << boot, rng, mtx >>
  /\ UNCHANGED cipherVars

\* length == 0: osReleaseMutex and return, to the caller or to Final (line 184)
HashReturn ==
  /\ md.line = 102 /\ md.length = 0
  /\ md' = [md EXCEPT !.line = IF md.src = "padding" THEN 184 ELSE 0]
  /\ UNCHANGED << boot, rng, mtx >>
  /\ UNCHANGED cipherVars

\* the caller calls Final: totalSize = context->totalSize * 8, paddingSize is computed
\* and Update(context, padding, paddingSize) is called
HashFinal ==
  /\ md.line = 0 /\ md.calls < MaxCalls
  /\ md' = [md EXCEPT !.bits = md.totalSize * 8,
                      !.length = PaddingSize(md.size), !.src = "padding", !.data = 0,
                      !.n = 0, !.line = 102,
                      !.calls = md.calls + 1, !.mixed = TRUE, !.last = "Final"]
  /\ UNCHANGED << boot, rng, mtx >>
  /\ UNCHANGED cipherVars

\* Final after Update has returned: the length is stored in the last 8 bytes of the
\* buffer and ProcessBlock is called, which comes to its osAcquireMutex (line 227)
HashFinalLength ==
  /\ md.line = 184
  /\ md' = [md EXCEPT !.buffer = AppendLength(md.fn, md.buffer, md.bits), !.line = 227]
  /\ UNCHANGED << boot, rng, mtx >>
  /\ UNCHANGED cipherVars

\* the caller calls ProcessBlock, which comes to its osAcquireMutex
HashProcessBlock ==
  /\ md.line = 0 /\ md.calls < MaxCalls
  /\ md' = [md EXCEPT !.line = 227,
                      !.calls = md.calls + 1, !.mixed = TRUE, !.last = "ProcessBlock"]
  /\ UNCHANGED << boot, rng, mtx >>
  /\ UNCHANGED cipherVars

\* ProcessBlock takes the mutex, passes the 64 bytes of the buffer as they are and
\* releases the mutex; it returns to the caller, or to Final, which copies the digest
\* and returns; size is left as it is
HashPassBlock ==
  /\ md.line = 227
  /\ md' = [md EXCEPT !.fed = md.fed \o md.buffer, !.src = "message", !.line = 0]
  /\ UNCHANGED << boot, rng, mtx >>
  /\ UNCHANGED cipherVars

\* the caller calls Init again: size = 0, totalSize = 0, the buffer is not written; a
\* new message starts where the bytes passed so far end
HashReinit ==
  /\ md.line = 0 /\ md.calls < MaxCalls
  /\ md' = [md EXCEPT !.size = 0, !.totalSize = 0,
                      !.start = md.passed, !.fed = << >>,
                      !.calls = md.calls + 1, !.mixed = TRUE, !.last = "Init"]
  /\ UNCHANGED << boot, rng, mtx >>
  /\ UNCHANGED cipherVars

HashNext ==
  \/ HashUpdate
  \/ HashBulk
  \/ HashFill
  \/ HashFlush
  \/ HashKeep
  \/ HashReturn
  \/ HashFinal
  \/ HashFinalLength
  \/ HashProcessBlock
  \/ HashPassBlock
  \/ HashReinit

\* a call that has been made runs its statements
SpecHash == HashInit /\ [][HashNext]_vars /\ WF_vars(HashNext)

(***************************************************************************)
(* Properties                                                              *)
(***************************************************************************)

\* the context was set by a successful ariaInit and not destroyed since
Initialised == cur # NoKey

\* a block operation has just returned
BlockReturned == pc = "returned" /\ call.op \in {"enc", "dec"}

\* ariaInit has just returned
InitReturned == pc = "returned" /\ call.op = "init"

\* C1: round trip.  With the context initialised by a successful ariaInit (any of the
\* three key lengths), ariaDecryptBlock run on the output of ariaEncryptBlock returns
\* the block that was encrypted, and ariaEncryptBlock run on the output of
\* ariaDecryptBlock returns the block that was decrypted.
C1_RoundTrip ==
  (BlockReturned /\ Initialised /\ call.prevOp \in {"enc", "dec"} /\ call.prevOp # call.op)
    => call.output = call.prevIn

\* C1 case: a decryption of a ciphertext just produced under a 192-bit key has returned
C1_Witness ==
  /\ BlockReturned /\ Initialised /\ cur.keyLen = 24
  /\ call.op = "dec" /\ call.prevOp = "enc"
  /\ call.input # call.prevIn
  /\ call.output = call.prevIn

RfcCipher128 == << 215, 24, 251, 214, 171, 100, 76, 115, 157, 169, 95, 59, 230, 69, 23, 120 >>
RfcCipher192 == << 38, 68, 156, 24, 5, 219, 231, 170, 37, 164, 104, 206, 38, 58, 158, 121 >>
RfcCipher256 == << 249, 43, 215, 199, 159, 183, 46, 47, 43, 143, 128, 193, 151, 45, 36, 252 >>

\* C2: RFC 5794 test vectors.  After ariaInit with the first 16, 24 or 32 bytes of the
\* key 00 01 .. 1F, ariaEncryptBlock on 00 11 22 .. FF writes D7 18 FB D6 .. 78,
\* 26 44 9C 18 .. 79 and F9 2B D7 C7 .. FC respectively.
C2_RfcVectors ==
  (BlockReturned /\ call.op = "enc" /\ call.input = RfcPlain /\ Initialised
     /\ cur.key = RfcKey)
    => call.output = CASE cur.keyLen = 16 -> RfcCipher128
                       [] cur.keyLen = 24 -> RfcCipher192
                       [] OTHER -> RfcCipher256

\* C2 case: the 256-bit vector has been encrypted
C2_Witness ==
  /\ BlockReturned /\ call.op = "enc" /\ call.input = RfcPlain
  /\ Initialised /\ cur.key = RfcKey /\ cur.keyLen = 32
  /\ call.output = RfcCipher256

\* the part of a context that ariaInit is said to set: nr and the round keys 0..nr of
\* ek and dk
Populated(context) ==
  [nr |-> context.nr,
   ek |-> SubSeq(context.ek, 1, 4 * (context.nr + 1)),
   dk |-> SubSeq(context.dk, 1, 4 * (context.nr + 1))]

\* what ariaInit sets from the key alone, starting from all-zero memory
FromKey(key, keyLen) ==
  Populated(ariaInit(Ptr(ZeroContext), Ptr(key), keyLen, Words(16, Zero32)).context[1])

\* C3: ariaInit returns NO_ERROR exactly when context and key are non-null and keyLen
\* is 16, 24 or 32; it returns nothing but NO_ERROR, ERROR_INVALID_PARAMETER and
\* ERROR_INVALID_KEY_LENGTH (never ERROR_OUT_OF_RESOURCES); and on NO_ERROR the context
\* holds nr and the round keys ek[0..nr], dk[0..nr] that the key determines, whatever
\* the context and the local array held before.
C3_InitResult ==
  InitReturned =>
    /\ (call.error = NO_ERROR) <=>
         (call.context # NULL /\ call.key # NULL /\ call.keyLen \in {16, 24, 32})
    /\ call.error \in {NO_ERROR, ERROR_INVALID_PARAMETER, ERROR_INVALID_KEY_LENGTH}
    /\ call.error # ERROR_OUT_OF_RESOURCES
    /\ call.error = NO_ERROR =>
         /\ ctx.nr \in {12, 14, 16}
         /\ Populated(ctx) = FromKey(call.key[1], call.keyLen)

\* C3 case: ariaInit has succeeded on a context that held the schedule of another key
\* of another length, with a local array that was not zero
C3_Witness ==
  /\ InitReturned /\ call.error = NO_ERROR
  /\ call.pre.nr \in {12, 14, 16} /\ call.pre.nr # ctx.nr
  /\ call.pre.ek # ctx.ek
  /\ call.keyLen = 24 /\ call.key = Ptr(AltKey)

\* C4: with a non-null context and a non-null key, ariaInit returns
\* ERROR_INVALID_KEY_LENGTH for every keyLen other than 16, 24 and 32, keyLen 0 included.
C4_KeyLengthRejected ==
  (InitReturned /\ call.context # NULL /\ call.key # NULL /\ call.keyLen \notin {16, 24, 32})
    => call.error = ERROR_INVALID_KEY_LENGTH

\* C4 case: keyLen 0 has been rejected
C4_Witness ==
  /\ InitReturned /\ call.context # NULL /\ call.key # NULL /\ call.keyLen = 0
  /\ call.error = ERROR_INVALID_KEY_LENGTH

\* C5: ariaInit returns ERROR_INVALID_PARAMETER whenever context or key is NULL,
\* whatever keyLen is: the null check comes before the key-length check.
C5_NullRejected ==
  (InitReturned /\ (call.context = NULL \/ call.key = NULL))
    => call.error = ERROR_INVALID_PARAMETER

\* C5 case: a null key with an invalid key length has been rejected as a null parameter
C5_Witness ==
  /\ InitReturned /\ call.context # NULL /\ call.key = NULL /\ call.keyLen = 17
  /\ call.error = ERROR_INVALID_PARAMETER

\* C6: when ariaInit returns ERROR_INVALID_KEY_LENGTH or ERROR_INVALID_PARAMETER, the
\* context memory (nr and every word of ek and dk) is what it was before the call, also
\* when it held the schedule of an earlier key, which stays the key in use.
C6_FailedInitFrame ==
  (InitReturned /\ call.error \in {ERROR_INVALID_KEY_LENGTH, ERROR_INVALID_PARAMETER})
    => /\ ctx = call.pre
       /\ Initialised => ctx = cur.context

\* C6 case: ariaInit has failed on the key length on a context initialised earlier
C6_Witness ==
  /\ InitReturned /\ call.error = ERROR_INVALID_KEY_LENGTH
  /\ call.context # NULL /\ Initialised
  /\ ctx = call.pre /\ ctx.nr = 14

\* C7 as stated: after a successful ariaInit, nr = 12 + 2 * (keyLen / 8 - 16)
C7_NrAsStated ==
  (InitReturned /\ call.error = NO_ERROR)
    => ctx.nr = 12 + 2 * ((call.keyLen \div 8) - 16)

\* C7, amended: after a successful ariaInit with keyLen in {16, 24, 32}, nr is
\* 12 + 2 * (keyLen / 8 - 2), that is 12, 14 and 16.
C7_Nr ==
  (InitReturned /\ call.error = NO_ERROR)
    => /\ call.keyLen \in {16, 24, 32}
       /\ ctx.nr = 12 + 2 * ((call.keyLen \div 8) - 2)

\* C7 case: ariaInit has succeeded with a 256-bit key
C7_Witness ==
  /\ InitReturned /\ call.error = NO_ERROR /\ call.keyLen = 32 /\ ctx.nr = 16

\* round key i of a round-key array
RoundKey(rk, i) == At128(rk, 4 * i)

\* A(v) for every encryption round key v that a key of KeyBuffers gives
DiffusedKeys ==
  [v \in {RoundKey(KeyedContext[key, keyLen].ek, j) :
            key \in KeyBuffers, keyLen \in {16, 24, 32}, j \in 0..16} |-> A(v)]

\* C8: from a successful ariaInit on, through block operations and failed calls, until
\* ariaDeinit: dk[0] = ek[nr], dk[nr] = ek[0] and dk[i] = A(ek[nr - i]) for 0 < i < nr.
C8_DkDerivation ==
  Initialised =>
    /\ RoundKey(ctx.dk, 0) = RoundKey(ctx.ek, ctx.nr)
    /\ RoundKey(ctx.dk, ctx.nr) = RoundKey(ctx.ek, 0)
    /\ \A i \in 1..(ctx.nr - 1) :
         /\ RoundKey(ctx.ek, ctx.nr - i) \in DOMAIN DiffusedKeys
         /\ RoundKey(ctx.dk, i) = DiffusedKeys[RoundKey(ctx.ek, ctx.nr - i)]

\* C8 case: a block operation has returned on a context initialised with a 128-bit key
C8_Witness ==
  /\ BlockReturned /\ Initialised /\ ctx.nr = 12 /\ call.depth = MaxChain
  /\ RoundKey(ctx.dk, 5) = A(RoundKey(ctx.ek, 7))
  /\ RoundKey(ctx.dk, 5) # RoundKey(ctx.ek, 7)

\* C9: after ariaDeinit, whatever the context held (never set, initialised, already
\* destroyed), nr and every word of ek and dk are zero; ariaDeinit on the all-zero
\* context leaves it all zero.
C9_Zeroised ==
  (pc = "returned" /\ call.op = "deinit")
    => /\ ctx.nr = 0
       /\ \A i \in 1..Len(ctx.ek) : ctx.ek[i] = Zero32
       /\ \A i \in 1..Len(ctx.dk) : ctx.dk[i] = Zero32
       /\ Len(ctx.ek) = Len(call.pre.ek) /\ Len(ctx.dk) = Len(call.pre.dk)

\* C9 case: ariaDeinit has returned on a context initialised with a key
C9_Witness ==
  /\ pc = "returned" /\ call.op = "deinit"
  /\ call.pre.nr = 16 /\ call.pre.ek[1] # Zero32
  /\ ctx.ek[1] = Zero32

\* C10: a block operation leaves the context memory as it found it, and after any
\* sequence of block operations since a successful ariaInit nr, ek and dk are what that
\* ariaInit left; of the caller's memory only the 16 bytes at output are written.
C10_BlockFrame ==
  BlockReturned =>
    /\ ctx = call.pre
    /\ Initialised => ctx = cur.context
    /\ Len(call.after) = Len(call.mem)
    /\ \A i \in 1..Len(call.mem) :
         (i <= call.outAt \/ i > call.outAt + 16) => call.after[i] = call.mem[i]

\* C10 case: a chain of block operations has run on an initialised context
C10_Witness ==
  /\ BlockReturned /\ Initialised /\ call.depth = MaxChain
  /\ call.output # call.input
  /\ ctx = cur.context

\* the block operation op
RunBlock(op, context, mem, input, output) ==
  IF op = "enc" THEN ariaEncryptBlock(context, mem, input, output)
  ELSE ariaDecryptBlock(context, mem, input, output)

\* the other of the caller's two buffers
OtherBuffer(p) == 16 - p

\* C11: a block operation called with output pointing at the input buffer writes the
\* same 16 bytes as the same call with output pointing at a disjoint buffer.
C11_Aliasing ==
  (BlockReturned /\ call.outAt = call.inAt)
    => call.output =
         Bytes16(RunBlock(call.op, call.pre, call.mem, call.inAt,
                          OtherBuffer(call.inAt)).mem,
                 OtherBuffer(call.inAt))

\* C11 case: a decryption has run in place on an initialised context and has overwritten
\* its input
C11_Witness ==
  /\ BlockReturned /\ Initialised /\ call.op = "dec" /\ call.depth = 1
  /\ call.outAt = call.inAt
  /\ Bytes16(call.after, call.inAt) # call.input

\* C12: the diffusion layer is an involution: A(A(X)) = X.
C12_Involution ==
  (probe.f = "A" /\ probe.n = 2) => probe.y = probe.x

\* C12 case: A has been applied twice to a state that A changes
C12_Witness ==
  /\ probe.f = "A" /\ probe.n = 2
  /\ probe.x = Load128(RfcPlain, 0)
  /\ A(probe.x) # probe.x
  /\ probe.y = probe.x

\* C13: each of sb1, sb2, sb3, sb4 is a permutation of 0..255 (256 entries, all in
\* 0..255, no two equal), and sb3[sb1[b]] = b and sb4[sb2[b]] = b for every byte b.
C13_SboxInverse ==
  probe.f \in SboxNames =>
    /\ Len(SboxTable(probe.f)) = 256
    /\ SboxTable(probe.f)[probe.x + 1] \in 0..255
    /\ \A b \in 0..255 :
         b # probe.x => SboxTable(probe.f)[b + 1] # SboxTable(probe.f)[probe.x + 1]
    /\ (probe.n = 2 /\ probe.f \in {"sb1", "sb2"}) => probe.y = probe.x

\* C13 case: sb4 has been looked up at the value sb2 gave for a byte that sb2 changes
C13_Witness ==
  /\ probe.f = "sb2" /\ probe.n = 2 /\ probe.x = 255
  /\ sb2[probe.x + 1] # probe.x
  /\ probe.y = probe.x

\* C14: the output of a block operation depends only on the key of the latest
\* successful ariaInit, the direction and the 16 input bytes: it is the output the same
\* operation gives on a context that key initialised with no history, whatever calls
\* (other block operations, failed and earlier ariaInit calls, ariaDeinit) came before.
C14_HistoryIndependent ==
  (BlockReturned /\ Initialised)
    => call.output =
         Bytes16(RunBlock(call.op, KeyedContext[cur.key, cur.keyLen],
                          call.input \o FreshBuffer, 0, 16).mem, 16)

\* C14 case: a decryption has returned on a context that still holds, beyond dk[nr],
\* round keys of an earlier, longer key
C14_Witness ==
  /\ BlockReturned /\ Initialised /\ call.op = "dec" /\ cur.keyLen = 16
  /\ ctx.dk # KeyedContext[cur.key, cur.keyLen].dk
  /\ \A f \in FreshContexts : RoundKey(ctx.dk, 16) # RoundKey(f.dk, 16)
  /\ RoundKey(ctx.dk, 16) # RoundKey(ZeroContext.dk, 16)

\* what thread t's call writes at output when it runs alone, for each choice made at
\* the start
AloneOutput ==
  [keyLen \in {16, 24, 32}, sharing \in BOOLEAN, t \in 1..MaxThreads |->
     Bytes16(RunBlock(ThreadCall(t, sharing).op,
                      StartContexts(keyLen)[ThreadCall(t, sharing).cx],
                      StartMem, ThreadCall(t, sharing).input,
                      ThreadCall(t, sharing).output).mem,
             ThreadCall(t, sharing).output)]

\* C15: threads that run block operations at the same time on one initialised context,
\* or on contexts of their own, with buffers of their own: under every interleaving of
\* their statements the contexts stay as they were, and when a call has returned its
\* output buffer holds what the call writes when run alone.
C15_SharedReadOnly ==
  /\ contexts = StartContexts(start.keyLen)
  /\ \A t \in DOMAIN thr :
       thr[t].line = ReturnLine
         => Bytes16(memory, thr[t].output) = AloneOutput[start.keyLen, start.sharing, t]

\* C15 case: two threads have shared a context, and the first has returned while the
\* second was in the middle of its rounds
C15_Witness ==
  /\ start.sharing /\ start.keyLen = 32
  /\ thr[1].line = ReturnLine /\ thr[2].line = 550
  /\ Len(thr[2].path) > 0
  /\ Bytes16(memory, thr[1].output) = AloneOutput[32, TRUE, 1]
  /\ Bytes16(memory, thr[1].output) # FreshBuffer

\* the lines a block operation executes on a context that a key gives, for each key,
\* key length and block
BlockFlows ==
  [op \in {"enc", "dec"}, key \in KeyBuffers, keyLen \in {16, 24, 32}, b \in Blocks |->
     BlockFlow(op, KeyedContext[key, keyLen], b \o FreshBuffer, 0, 16)]

\* C16: the control flow does not depend on key or data values.  ariaInit run statement
\* by statement on any other key bytes, with the same context, the same keyLen and
\* whatever its local w held, executes the same lines as the call that has returned; a
\* block operation on any context with the same nr, whatever its round keys, and on any
\* block executes the same lines (branches, OF/EF/XOR/SL2 steps) as the call that has
\* returned.  The statements whose lines ariaInit's flow lists are the call: run in that
\* order they return its error code and leave its context, its w and its ck1, ck2, ck3.
C16_ControlFlow ==
  /\ (InitReturned /\ call.key # NULL)
       => \A k \in KeyBuffers, w0 \in FreshScratch :
            InitFlow(call.context, Ptr(k), call.keyLen, w0) = call.flow
  /\ InitReturned
       => \E w0 \in FreshScratch :
            \E r \in {InitRun(InitAt(call.context, call.key, call.keyLen, w0),
                               MaxStatements)} :
              /\ r.path = call.flow /\ r.error = call.error /\ r.w = call.w
              /\ r.ck = call.ck
              /\ call.context # NULL => r.context = Ptr(ctx)
  /\ (BlockReturned /\ Initialised)
       => \A k \in KeyBuffers, n \in {16, 24, 32}, b \in Blocks :
            KeyedContext[k, n].nr = ctx.nr => BlockFlows[call.op, k, n, b] = call.flow

\* C16 case: a decryption under the 256-bit RFC key has returned after the sixteen-round
\* tail, and an ariaInit with a 24-byte key has returned after 13 passes of the dk loop,
\* having executed the three ck assignments of the 192-bit branch and loaded six key
\* words, and the statements it ran leave the context and the array w the call left
C16_Witness ==
  \/ /\ BlockReturned /\ Initialised /\ call.op = "dec"
     /\ cur.key = RfcKey /\ cur.keyLen = 32 /\ call.input = AltBlock
     /\ Len(call.flow) = 29 /\ call.flow[17] = 529 /\ call.flow[19] = 548
     /\ BlockFlows["dec", AltKey, 32, RfcPlain] = call.flow
  \/ /\ InitReturned /\ call.error = NO_ERROR /\ call.keyLen = 24 /\ call.key = Ptr(AltKey)
     /\ SubSeq(call.flow, 1, 7) = << 362, 366, 376, 379, 382, 383, 384 >>
     /\ Cardinality({i \in DOMAIN call.flow : call.flow[i] = 481}) = 13
     /\ Cardinality({i \in DOMAIN call.flow : call.flow[i] = 410}) = 6
     /\ \E w0 \in FreshScratch :
          \E r \in {InitRun(InitAt(call.context, call.key, call.keyLen, w0),
                             MaxStatements)} :
            r.context = Ptr(ctx) /\ r.w = call.w /\ r.ck = call.ck /\ r.error = call.error

\* C17: when ariaInit returns NO_ERROR every word of its local array w, which held
\* KL/W0, W1, W2 and W3, is zero.  The code never clears w: this is violated.
C17_ScratchZeroised ==
  (InitReturned /\ call.error = NO_ERROR) => \A i \in DOMAIN call.w : call.w[i] = Zero32

\* contexts that differ from context in every byte of every round-key word: the
\* complement of context, and one whose words are all different from each other
Complement(context) ==
  [nr |-> context.nr + 1,
   ek |-> [i \in DOMAIN context.ek |-> [j \in 1..4 |-> 255 - context.ek[i][j]]],
   dk |-> [i \in DOMAIN context.dk |-> [j \in 1..4 |-> 255 - context.dk[i][j]]]]
Marked ==
  [nr |-> 99, ek |-> [i \in 1..68 |-> << 1, i, 2 * i, 255 - i >>],
   dk |-> [i \in 1..68 |-> << 2, 255 - i, i, 3 * i >>]]

\* C18: after a successful ariaInit, on a context that was fresh, cleared or initialised
\* before with a key of any length, the round keys ek[i] and dk[i] for i in 0..nr are
\* all written by the call: the same call on a context whose every byte is different
\* gives the same nr and the same ek[0..nr], dk[0..nr].
C18_AllSlotsWritten ==
  (InitReturned /\ call.error = NO_ERROR)
    => \A prior \in {Complement(call.pre), Marked} :
         \E r \in {ariaInit(Ptr(prior), call.key, call.keyLen, call.w).context[1]} :
            /\ r.nr = ctx.nr
            /\ \A i \in 0..ctx.nr :
                 /\ RoundKey(r.ek, i) = RoundKey(ctx.ek, i)
                 /\ RoundKey(r.dk, i) = RoundKey(ctx.dk, i)

\* C18 case: ariaInit has succeeded with a 16-byte key on a context that held the
\* schedule of a 32-byte key; dk[12] is new and dk[13], past nr, is the earlier call's
C18_Witness ==
  /\ InitReturned /\ call.error = NO_ERROR /\ call.keyLen = 16
  /\ call.pre.nr = 16 /\ ctx.nr = 12
  /\ RoundKey(ctx.ek, 12) # RoundKey(call.pre.ek, 12)
  /\ RoundKey(ctx.dk, 12) # RoundKey(call.pre.dk, 12)
  /\ RoundKey(ctx.dk, 13) = RoundKey(call.pre.dk, 13)
  /\ RoundKey(ctx.dk, 13) # RoundKey(Complement(call.pre).dk, 13)

\* C19: a successful ariaInit with keyLen 16 stores nr = 12 and selects ck1, ck2, ck3 at
\* words 0, 4, 8 of c; with keyLen 24, nr = 14 and words 4, 8, 0; with keyLen 32,
\* nr = 16 and words 8, 0, 4.  From a successful ariaInit on, until ariaDeinit, nr is
\* 12, 14 or 16.
C19_ParameterSelection ==
  /\ (InitReturned /\ call.error = NO_ERROR) =>
       /\ call.keyLen = 16 => (ctx.nr = 12 /\ call.ck = << 0, 4, 8 >>)
       /\ call.keyLen = 24 => (ctx.nr = 14 /\ call.ck = << 4, 8, 0 >>)
       /\ call.keyLen = 32 => (ctx.nr = 16 /\ call.ck = << 8, 0, 4 >>)
       /\ call.keyLen \in {16, 24, 32}
  /\ Initialised => ctx.nr \in {12, 14, 16}

\* C19 case: ariaInit has succeeded with a 24-byte key on a context whose nr was 16
C19_Witness ==
  /\ InitReturned /\ call.error = NO_ERROR /\ call.keyLen = 24
  /\ call.pre.nr = 16 /\ ctx.nr = 14
  /\ At128(c, call.ck[3]) = << <<81, 124, 193, 183>>, <<39, 34, 10, 148>>,
                               <<254, 19, 171, 232>>, <<250, 154, 110, 224>> >>

\* the key bytes 1..keyLen followed by zero bytes up to 32, and the four big-endian
\* words of the 16 bytes from byte at on
ZeroPadded(key, keyLen) == [i \in 1..32 |-> IF i <= keyLen THEN key[i] ELSE 0]
Block128(bytes, at) ==
  [k \in 1..4 |-> << bytes[at + 4 * k - 3], bytes[at + 4 * k - 2],
                     bytes[at + 4 * k - 1], bytes[at + 4 * k] >>]

\* C20: in a successful ariaInit, with KL the first 16 key bytes and KR the key bytes
\* from 16 to keyLen - 1 followed by zero bytes (all zero for keyLen 16), as big-endian
\* words, the local array holds at the return W0 = KL, W1 = A(SL1(W0 ^ CK1)) ^ KR,
\* W2 = A(SL2(W1 ^ CK2)) ^ W0 and W3 = A(SL1(W2 ^ CK3)) ^ W1; W0 is still KL after
\* W1..W3 were computed.
C20_Derivation ==
  (InitReturned /\ call.error = NO_ERROR) =>
    \E kl \in {Block128(ZeroPadded(call.key[1], call.keyLen), 0)},
       kr \in {Block128(ZeroPadded(call.key[1], call.keyLen), 16)} :
      \E w1 \in {XOR128(A(SL1(XOR128(kl, At128(c, call.ck[1])))), kr)} :
        \E w2 \in {XOR128(A(SL2(XOR128(w1, At128(c, call.ck[2])))), kl)} :
          \E w3 \in {XOR128(A(SL1(XOR128(w2, At128(c, call.ck[3])))), w1)} :
            /\ call.keyLen = 16 => kr = Words(4, Zero32)
            /\ kl = Block128(call.key[1], 0)
            /\ At128(call.w, 0) = kl
            /\ At128(call.w, 4) = w1
            /\ At128(call.w, 8) = w2
            /\ At128(call.w, 12) = w3

\* C20 case: ariaInit has succeeded with a 24-byte key, whose KR is half key bytes and
\* half zero padding
C20_Witness ==
  /\ InitReturned /\ call.error = NO_ERROR /\ call.keyLen = 24 /\ call.key = Ptr(AltKey)
  /\ Block128(ZeroPadded(AltKey, 24), 16)[2] # Zero32
  /\ Block128(ZeroPadded(AltKey, 24), 16)[3] = Zero32
  /\ Block128(AltKey, 16)[3] # Zero32
  /\ At128(call.w, 0) = Block128(AltKey, 0)
  /\ At128(call.w, 4) # At128(call.w, 12)

\* bit j, counted from the most significant (0..127), of a four-word big-endian value
Bit128(v, j) == (v[(j \div 32) + 1][((j % 32) \div 8) + 1] \div Pow2(7 - (j % 8))) % 2

\* the 128-bit left rotation by n, bit by bit: bit j of the result is bit j + n of v
RotByte(v, n, at) ==
  128 * Bit128(v, (at + n) % 128) + 64 * Bit128(v, (at + 1 + n) % 128)
    + 32 * Bit128(v, (at + 2 + n) % 128) + 16 * Bit128(v, (at + 3 + n) % 128)
    + 8 * Bit128(v, (at + 4 + n) % 128) + 4 * Bit128(v, (at + 5 + n) % 128)
    + 2 * Bit128(v, (at + 6 + n) % 128) + Bit128(v, (at + 7 + n) % 128)
Rotl128(v, n) ==
  [k \in 1..4 |-> [b \in 1..4 |-> RotByte(v, n, 32 * (k - 1) + 8 * (b - 1))]]

\* the rotation amount of round key r, 1..17
RolAmount(r) ==
  IF r <= 4 THEN 109 ELSE IF r <= 8 THEN 97 ELSE IF r <= 12 THEN 61
  ELSE IF r <= 16 THEN 31 ELSE 19

\* C21: after a successful ariaInit, for r = 1..17, ek[r - 1] is the 128-bit left
\* rotation of W_src by n, XOR W_part, with W_src = W(r mod 4) (W1, W2, W3, W0, ..),
\* W_part = W((r - 1) mod 4) (W0, W1, W2, W3, ..) and n = 109, 97, 61, 31 for the four
\* groups of four and 19 for r = 17; ROL128 is a true rotation for these amounts.
C21_EkDerivation ==
  (InitReturned /\ call.error = NO_ERROR) =>
    \A r \in 1..17 :
       /\ RoundKey(ctx.ek, r - 1)
            = XOR128(Rotl128(At128(call.w, 4 * (r % 4)), RolAmount(r)),
                     At128(call.w, 4 * ((r - 1) % 4)))
       /\ ROL128(At128(call.w, 4 * (r % 4)), RolAmount(r))
            = Rotl128(At128(call.w, 4 * (r % 4)), RolAmount(r))

\* C21 case: ariaInit has succeeded with a 16-byte key; ek[16], past nr = 12, is W1
\* rotated by 19 XOR W0, and the rotation moved bits across the word boundaries
C21_Witness ==
  /\ InitReturned /\ call.error = NO_ERROR /\ call.keyLen = 16 /\ ctx.nr = 12
  /\ RoundKey(ctx.ek, 16) = XOR128(Rotl128(At128(call.w, 4), 19), At128(call.w, 0))
  /\ Rotl128(At128(call.w, 4), 19) # At128(call.w, 4)
  /\ Rotl128(At128(call.w, 4), 19)[4][4] % 8 = At128(call.w, 4)[1][3] \div 32
  /\ At128(call.w, 4)[1][3] \div 32 # 0

\* context with every byte of the round keys past index nr complemented
PastNrComplemented(context) ==
  [nr |-> context.nr,
   ek |-> [i \in 1..68 |-> IF i > 4 * (context.nr + 1)
                             THEN [j \in 1..4 |-> 255 - context.ek[i][j]]
                             ELSE context.ek[i]],
   dk |-> [i \in 1..68 |-> IF i > 4 * (context.nr + 1)
                             THEN [j \in 1..4 |-> 255 - context.dk[i][j]]
                             ELSE context.dk[i]]]

\* what a block operation writes when the round keys past nr are not those of the key
OutputPastNr ==
  [op \in {"enc", "dec"}, key \in KeyBuffers, keyLen \in {16, 24, 32}, b \in Blocks |->
     Bytes16(RunBlock(op, PastNrComplemented(KeyedContext[key, keyLen]),
                      b \o FreshBuffer, 0, 16).mem, 16)]

\* C22: a successful ariaInit stores all 17 encryption round keys ek[0..16], whatever
\* the key length and nr: each is the one the key determines.  The block operations read
\* no round key past index nr: their output is the same when every byte of
\* ek[nr+1..16] and dk[nr+1..16] is different.
C22_SeventeenKeys ==
  /\ (InitReturned /\ call.error = NO_ERROR)
       => \A i \in 0..16 :
            RoundKey(ctx.ek, i) = RoundKey(KeyedContext[call.key[1], call.keyLen].ek, i)
  /\ (BlockReturned /\ Initialised /\ call.input \in Blocks)
       => call.output = OutputPastNr[call.op, cur.key, cur.keyLen, call.input]

\* C22 case: ariaInit has succeeded with a 16-byte key on a context that held another
\* key's schedule, and ek[13..16] are new; or a block operation has returned on a context
\* whose dk[13..16] are not those the 16-byte key gives
C22_Witness ==
  \/ /\ InitReturned /\ call.error = NO_ERROR /\ call.keyLen = 16 /\ ctx.nr = 12
     /\ call.pre.nr = 16
     /\ \A i \in 13..16 : RoundKey(ctx.ek, i) # RoundKey(call.pre.ek, i)
  \/ /\ BlockReturned /\ Initialised /\ call.input \in Blocks /\ cur.keyLen = 16
     /\ call.op = "dec"
     /\ RoundKey(ctx.dk, 13) # RoundKey(KeyedContext[cur.key, 16].dk, 13)
     /\ RoundKey(ctx.dk, 13) # RoundKey(PastNrComplemented(KeyedContext[cur.key, 16]).dk, 13)

\* the generic block transform: rounds i..nr - 1 on the state S, OF for odd i and EF
\* for even i, with round key RK[i - 1]
RECURSIVE FullRounds(_, _, _, _)
FullRounds(S, RK, i, nr) ==
  IF i > nr - 1 THEN S
  ELSE Do([S1 \in {IF i % 2 = 1 THEN A(SL1(XOR128(S, RoundKey(RK, i - 1))))
                                ELSE A(SL2(XOR128(S, RoundKey(RK, i - 1))))} |->
       FullRounds(S1, RK, i + 1, nr)])

\* the 16 bytes of four big-endian words
Bytes128(S) == [i \in 1..16 |-> S[((i - 1) \div 4) + 1][((i - 1) % 4) + 1]]

\* load, nr - 1 full rounds, the final round without the diffusion layer, store
GenericTransform(bytes, RK, nr) ==
  Do([S \in {FullRounds(Block128(bytes, 0), RK, 1, nr)} |->
  Bytes128(XOR128(SL2(XOR128(S, RoundKey(RK, nr - 1))), RoundKey(RK, nr)))])

\* C23: for nr = 12, 14 and 16 the unrolled ariaEncryptBlock writes what the generic
\* definition gives: the input as four big-endian words, rounds i = 1..nr - 1 with
\* OF(S, RK[i - 1]) for odd i and EF(S, RK[i - 1]) for even i, then
\* S = SL2(S ^ RK[nr - 1]) ^ RK[nr] without the diffusion layer, stored as 16 big-endian
\* bytes.
C23_GenericRounds ==
  (BlockReturned /\ call.op = "enc" /\ call.pre.nr \in {12, 14, 16})
    => call.output = GenericTransform(call.input, call.pre.ek, call.pre.nr)

\* C23 case: an encryption under a 24-byte key (14 rounds: the last full round, 13, is
\* an odd one) has returned
C23_Witness ==
  /\ BlockReturned /\ call.op = "enc" /\ call.pre.nr = 14 /\ Initialised
  /\ call.input = AltBlock
  /\ call.output = GenericTransform(AltBlock, ctx.ek, 14)
  /\ call.output # GenericTransform(AltBlock, ctx.ek, 12)
  /\ call.output # GenericTransform(AltBlock, ctx.ek, 16)

\* C24: on every context, initialised or not, and every input, ariaDecryptBlock leaves
\* the memory as ariaEncryptBlock does on a context with the same nr whose ek table is
\* this context's dk table, and leaves the context as it was.
C24_SinglePath ==
  (BlockReturned /\ call.op = "dec")
    => /\ call.after = ariaEncryptBlock([call.pre EXCEPT !.ek = call.pre.dk],
                                        call.mem, call.inAt, call.outAt).mem
       /\ ctx = call.pre

\* C24 case: a decryption has returned on a context whose dk is not its ek, and the
\* encryption with the context's own ek gives something else
C24_Witness ==
  /\ BlockReturned /\ call.op = "dec" /\ Initialised /\ cur.keyLen = 32
  /\ call.pre.dk # call.pre.ek
  /\ call.after # call.mem
  /\ call.after # ariaEncryptBlock(call.pre, call.mem, call.inAt, call.outAt).mem

\* C26: after ariaInit with a 32-byte key followed by a successful ariaInit with a
\* shorter key on the same context, every word of ek[0..16] and dk[0..16] is the one the
\* new key alone gives (the one it gives on cleared memory).  The code leaves
\* dk[nr+1..16] as the earlier call wrote them: this is violated.
C26_NoResidue ==
  (InitReturned /\ call.error = NO_ERROR /\ call.pre.nr = 16 /\ call.keyLen \in {16, 24})
    => \A i \in 0..16 :
         /\ RoundKey(ctx.ek, i) = RoundKey(KeyedContext[call.key[1], call.keyLen].ek, i)
         /\ RoundKey(ctx.dk, i) = RoundKey(KeyedContext[call.key[1], call.keyLen].dk, i)

\* C27: a block operation on a context whose nr is neither 12 nor 14 (never initialised,
\* or cleared by ariaDeinit) is carried out like one with nr = 16: it executes the lines
\* of the 16-round path, reads round keys 0..16 and writes the 16 output bytes of the
\* 16-round transform under the context's table; after ariaDeinit that is the transform
\* under all-zero round keys, whatever key the context held.
C27_UncheckedRounds ==
  (BlockReturned /\ call.pre.nr \notin {12, 14})
    => /\ call.output = GenericTransform(call.input,
                                         IF call.op = "enc" THEN call.pre.ek
                                                            ELSE call.pre.dk, 16)
       /\ call.flow = BlockFlows[call.op, RfcKey, 32, RfcPlain]
       /\ Len(call.after) = Len(call.mem)
       /\ call.pre = ZeroContext
            => call.output = GenericTransform(call.input, Words(68, Zero32), 16)

\* C27 case: an encryption has returned on a context that ariaDeinit cleared (nr = 0),
\* and what it wrote is not what 12 rounds under zero round keys give
C27_Witness ==
  /\ BlockReturned /\ call.op = "enc" /\ call.pre = ZeroContext /\ call.pre.nr = 0
  /\ call.input = RfcPlain
  /\ call.output # FreshBuffer
  /\ call.output # GenericTransform(call.input, Words(68, Zero32), 12)
  /\ 550 \in {call.flow[i] : i \in DOMAIN call.flow}

BootReturned == boot.at = Len(boot.code) + 2

\* the statements executed after the mutex, as names
BootSteps == [i \in DOMAIN boot.ran |-> boot.ran[i].step]
CompiledSteps == [i \in DOMAIN boot.code |-> boot.code[i].step]
BootFailed(i) == boot.ran[i].result \notin {NO_ERROR, "void"}

\* C25: in esp32s3CryptoInit, pic32mzCryptoInit and samv71CryptoInit, when the mutex
\* cannot be created no later step is ever executed and the function returns
\* ERROR_OUT_OF_RESOURCES; when it is created the compiled steps run in source order,
\* a step that returns an error is the last one executed and its error is the result,
\* and with no failing step all of them run and the result is NO_ERROR.
C25_BackEndInit ==
  /\ boot.created = "failed" => boot.ran = << >>
  /\ (BootReturned /\ boot.created = "failed") => boot.result = ERROR_OUT_OF_RESOURCES
  /\ boot.created = "created" =>
       /\ Len(boot.ran) <= Len(boot.code)
       /\ BootSteps = SubSeq(CompiledSteps, 1, Len(boot.ran))
       /\ \A i \in DOMAIN boot.ran : BootFailed(i) => i = Len(boot.ran)
  /\ (BootReturned /\ boot.created = "created") =>
       IF boot.ran # << >> /\ BootFailed(Len(boot.ran))
         THEN boot.result = boot.ran[Len(boot.ran)].result
         ELSE boot.ran = [i \in DOMAIN boot.code |->
                            [step |-> boot.code[i].step, line |-> boot.code[i].line,
                             result |-> IF boot.code[i].sets THEN NO_ERROR ELSE "void"]]
              /\ boot.result = NO_ERROR

\* C25 case: samv71CryptoInit with every module enabled has returned the error of
\* trngInit, with the mutex created and neither peripheral clock enabled
C25_Witness ==
  /\ BootReturned
  /\ boot.fn = "samv71CryptoInit" /\ boot.enabled = {"TRNG", "HASH", "CIPHER"}
  /\ boot.created = "created"
  /\ boot.ran = << [step |-> "trngInit", line |-> 72, result |-> ERROR_FAILURE] >>
  /\ boot.result = ERROR_FAILURE

TrngReturned == rng.line = 143

\* C28: when trngGetRandomData returns NO_ERROR every ready check of the call succeeded
\* and every byte of data comes from a value read from the TRNG data register; when
\* some ready check failed it returns ERROR_FAILURE.  The code returns by the last
\* check alone: this is violated.
C28_EveryCheckCounts ==
  TrngReturned =>
    /\ rng.result = NO_ERROR =>
         /\ \A k \in DOMAIN rng.checks : rng.checks[k] = SUCCESS
         /\ \A k \in DOMAIN rng.data : rng.data[k].from = "trng"
    /\ (\E k \in DOMAIN rng.checks : rng.checks[k] = ERROR) => rng.result = ERROR_FAILURE

\* caller t has acquired the mutex and not released it since
Holding(t) == Len(mtx.callers[t].trace) % 2 = 1
AtAcquire(t) ==
  /\ AtStatement(mtx.device, mtx.callers[t])
  /\ Statement(mtx.device, mtx.callers[t]).op = "acquire"
InHardware(t) ==
  /\ AtStatement(mtx.device, mtx.callers[t])
  /\ Statement(mtx.device, mtx.callers[t]).op \in {"section", "release"}
CallerDone(t) == mtx.callers[t].stack = << >>
\* the routines of the device that a call of fn runs, fn included
RoutinesRun(fn) ==
  ({fn} \cup {Routines(mtx.device)[fn][k].fn : k \in DOMAIN Routines(mtx.device)[fn]}) \ {""}
LockingRun(fn) ==
  {g \in RoutinesRun(fn) : \E k \in DOMAIN Routines(mtx.device)[g] :
                              Routines(mtx.device)[g][k].op = "acquire"}

\* C29: with concurrent callers of the routines that use the device crypto mutex, at
\* most one caller is in a hardware section and it owns the mutex; a caller's mutex
\* operations alternate acquire, release, each release by the routine that acquired;
\* no caller is at osAcquireMutex while it holds the mutex; and a caller that has
\* returned holds nothing and each locking routine it ran acquired and released once.
C29_MutexDiscipline ==
  /\ \A t, u \in DOMAIN mtx.callers : (InHardware(t) /\ InHardware(u)) => t = u
  /\ \A t \in DOMAIN mtx.callers :
       /\ InHardware(t) => Holding(t)
       /\ Holding(t) => mtx.owner = t
       /\ AtAcquire(t) => (~Holding(t) /\ mtx.owner # t)
       /\ \A k \in DOMAIN mtx.callers[t].trace :
            /\ mtx.callers[t].trace[k].ev = IF k % 2 = 1 THEN "acquire" ELSE "release"
            /\ k % 2 = 0 => mtx.callers[t].trace[k].fn = mtx.callers[t].trace[k - 1].fn
       /\ CallerDone(t) =>
            /\ ~Holding(t)
            /\ \A g \in LockingRun(mtx.callers[t].fn) :
                 \A ev \in {"acquire", "release"} :
                   Cardinality({k \in DOMAIN mtx.callers[t].trace :
                                  /\ mtx.callers[t].trace[k].fn = g
                                  /\ mtx.callers[t].trace[k].ev = ev}) = 1
            /\ Len(mtx.callers[t].trace) = 2 * Cardinality(LockingRun(mtx.callers[t].fn))

\* C29 case: on the rx65n, one caller of md5Final has acquired and released in
\* md5Update and holds the mutex again in md5ProcessBlock, while the other waits at
\* osAcquireMutex of sha256Update
C29_Witness ==
  /\ mtx.device = "rx65n"
  /\ mtx.callers[1].fn = "md5Final" /\ mtx.callers[2].fn = "sha256Update"
  /\ Len(mtx.callers[1].trace) = 3
  /\ mtx.callers[1].trace[3].fn = "md5ProcessBlock"
  /\ InHardware(1)
  /\ AtAcquire(2)
  /\ mtx.owner = 1

\* no call is in progress
HashIdle == md.line = 0

\* since the last Init the caller has called nothing but Update
OnlyUpdates == md.last \in {"Init", "Update"}

HashInvariant ==
  /\ md.writeEnd <= BlockSize
  /\ Len(md.fed) % BlockSize = 0
  /\ OnlyUpdates =>
       /\ md.fed = MessageBytes(md.start, Len(md.fed))
       /\ HashIdle =>
            /\ md.totalSize = md.passed - md.start
            /\ md.size = md.totalSize % BlockSize
            /\ md.size \in 0..(BlockSize - 1)
            /\ Len(md.fed) = md.totalSize - md.size
            /\ \A k \in 1..md.size : md.buffer[k] = md.start + Len(md.fed) + k - 1

\* C30: from md5Init/sha1Init/sha256Init and through any sequence of Update calls, no
\* copy into the buffer ends past its 64 bytes, the bytes passed to the accelerator are
\* whole blocks and are the message from its start in order, and after each call
\* totalSize is the sum of the lengths passed, size is totalSize mod 64 and below 64
\* and the buffer holds the bytes not yet passed; every call returns.
C30_Buffering == []HashInvariant /\ (~HashIdle ~> HashIdle)

\* C30 case: sha256Update has returned with 129 bytes passed in all since the first
\* Init; the first block went through the buffer, which an earlier call had left partly
\* filled, two blocks have been passed to the accelerator and one byte is left in the
\* buffer
C30_Witness ==
  /\ HashIdle /\ md.fn = "sha256Update" /\ OnlyUpdates /\ md.start = 0
  /\ md.totalSize = 129 /\ md.size = 1 /\ md.n = 1
  /\ Len(md.fed) = 128
  /\ md.buffer[1] = 128 /\ md.buffer[2] = 1 /\ md.buffer[64] = 63

====
